---- MODULE Spec2Model ----
(***************************************************************************)
(* The readout engine of ProgramCruExperimentalDma.cxx: the primary thread *)
(* (run / initDma / runDma and the functions they call), the temperature   *)
(* monitor thread, the SIGINT flag, the clock, and the card as far as the  *)
(* program sees it (descriptor table, status entries, page memory, the     *)
(* data-emulator and acknowledge registers).                               *)
(*                                                                         *)
(* The ring, the low-priority interval and the times are scaled down; the  *)
(* scaled values are the bounds below, each with the value the source      *)
(* gives it.  Time is counted in clock ticks.                              *)
(***************************************************************************)
EXTENDS Integers, Sequences, FiniteSets, TLC

\* ---------------------------------------------------------------- bounds
\* NUM_OF_BUFFERS is 32 in the source (line 72); scaled.
NUM_OF_BUFFERS == 2
\* FIFO_ENTRIES is 4 in the source (line 73); scaled.
FIFO_ENTRIES == 2
\* LOW_PRIORITY_INTERVAL is 10000 in the source (line 1136); scaled.
LOW_PRIORITY_INTERVAL == 1
\* HANDLING_SIGINT_TIMEOUT is 10 ms in the source (line 85); in ticks, scaled.
HANDLING_SIGINT_TIMEOUT == 1
\* The clock stops advancing at MaxTime.
MaxTime == 2
\* The display, pause-interval and pause-length times are 10 ms, 10..2000 ms
\* and 1..500 ms in the source (lines 61, 91-97); in ticks, scaled.
DISPLAY_INTERVAL == 1
NEXT_PAUSE_MIN == 1
NEXT_PAUSE_MAX == 2
PAUSE_LENGTH_MIN == 1
PAUSE_LENGTH_MAX == 2
\* The partitioner yields up to NUM_PAGES + ExtraPages pages.
ExtraPages == 1
\* The largest finite page limit (--pages) that is tried.
MaxLimit == 6
\* In unlimited mode the run is followed up to MaxPush pushes.
MaxPush == 6
\* The validator is followed on pages of PageWords 32-bit words (2048 in the
\* source, line 70).
PageWords == 24
\* MAX_RECORDED_ERRORS is 1000 in the source (line 58); scaled.
MAX_RECORDED_ERRORS == 2
\* resetPage is followed for up to MaxResets calls in a row.
MaxResets == 2
\* The table sizes that are tried go up to MaxTablePages pages and a byte.
MaxTablePages == 2
\* The register hammer is followed for MaxHammerTurns turns of its loop.
MaxHammerTurns == 1

\* ------------------------------------------------------ program constants
NUM_PAGES == FIFO_ENTRIES * NUM_OF_BUFFERS
DMA_PAGE_SIZE == 8 * 1024
DMA_PAGE_SIZE_32 == DMA_PAGE_SIZE \div 4
\* The literal of "mReadoutCounter % 4" in runDma.
LEGACY_ACK_INTERVAL == 4
PATTERN_STRIDE == 8
\* The literal of "*temperature > 80.0" in the monitor.
MAX_TEMPERATURE == 80
\* A uint32_t is the pair of its upper and lower 16 bits.
Half == 2 ^ 16
Word(hi, lo) == <<hi, lo>>
\* uint32_t addition of a small number: it wraps at 2^32.
AddWord(w, k) ==
  Word((w[1] + ((w[2] + k) \div Half)) % Half, (w[2] + k) % Half)
\* 0xCcccCccc.
BUFFER_DEFAULT_VALUE == Word(52428, 52428)
DMA_ALIGNMENT == 32

\* -------------------------------------------------------------- inputs
\* --pages: "Give <= 0 for infinite".
PageLimits == {-1, 0, 1, NUM_PAGES, MaxLimit}
\* Sizes of mPageAddresses the partitioner can return.
PartitionSizes == (NUM_PAGES - 1) .. (NUM_PAGES + ExtraPages)

\* The runs without pauses and display: every page limit, both ack modes.
CoreOptions ==
  [maxPages : PageLimits, legacyAck : BOOLEAN, randomPauseSoft : {FALSE},
   randomPauseFirm : {FALSE}, verbose : {FALSE}, fifoDisplay : {FALSE},
   fileOutputAscii : {FALSE}, fileOutputBin : {FALSE}, checkError : {FALSE},
   resyncCounter : {FALSE}, generatorPattern : {"Incremental"},
   registerHammer : {FALSE}, removeSharedMemory : {FALSE}]
\* The runs with a software pause, a firmware pause or the status display,
\* at a short page limit.
AuxOptions ==
  [maxPages : {2}, legacyAck : {FALSE}, randomPauseSoft : {TRUE},
   randomPauseFirm : {FALSE}, verbose : {FALSE}, fifoDisplay : {FALSE},
   fileOutputAscii : {FALSE}, fileOutputBin : {FALSE}, checkError : {FALSE},
   resyncCounter : {FALSE}, generatorPattern : {"Incremental"},
   registerHammer : {FALSE}, removeSharedMemory : {FALSE}]
  \cup
  [maxPages : {2}, legacyAck : {FALSE}, randomPauseSoft : {FALSE},
   randomPauseFirm : {TRUE}, verbose : {FALSE}, fifoDisplay : {FALSE},
   fileOutputAscii : {FALSE}, fileOutputBin : {FALSE}, checkError : {FALSE},
   resyncCounter : {FALSE}, generatorPattern : {"Incremental"},
   registerHammer : {FALSE}, removeSharedMemory : {FALSE}]
  \cup
  [maxPages : {2}, legacyAck : {FALSE}, randomPauseSoft : {FALSE},
   randomPauseFirm : {FALSE}, verbose : {TRUE}, fifoDisplay : BOOLEAN,
   fileOutputAscii : {FALSE}, fileOutputBin : {FALSE}, checkError : {FALSE},
   resyncCounter : {FALSE}, generatorPattern : {"Incremental"},
   registerHammer : {FALSE}, removeSharedMemory : {FALSE}]
OptionSets == CoreOptions \cup AuxOptions

\* The runs whose termination is followed: unlimited, the shortest limit and
\* a limit over the ring size, with per-page acknowledgment.
LiveOptions ==
  [maxPages : {0, 1, MaxLimit}, legacyAck : {FALSE}, randomPauseSoft : {FALSE},
   randomPauseFirm : {FALSE}, verbose : {FALSE}, fifoDisplay : {FALSE},
   fileOutputAscii : {FALSE}, fileOutputBin : {FALSE}, checkError : {FALSE},
   resyncCounter : {FALSE}, generatorPattern : {"Incremental"},
   registerHammer : {FALSE}, removeSharedMemory : {FALSE}]

\* The runs the validator is followed in: with and without --verbose.
CheckOptions ==
  [maxPages : {1}, legacyAck : {FALSE}, randomPauseSoft : {FALSE},
   randomPauseFirm : {FALSE}, verbose : BOOLEAN, fifoDisplay : {FALSE},
   fileOutputAscii : {FALSE}, fileOutputBin : {FALSE}, checkError : {FALSE},
   resyncCounter : {FALSE}, generatorPattern : {"Incremental"},
   registerHammer : {FALSE}, removeSharedMemory : {FALSE}]

\* The runs with error checking: every recognized pattern, with and without
\* --resync-counter, both acknowledgment modes, three pages.
VerifyOptions ==
  [maxPages : {3}, legacyAck : BOOLEAN, randomPauseSoft : {FALSE},
   randomPauseFirm : {FALSE}, verbose : {FALSE}, fifoDisplay : {FALSE},
   fileOutputAscii : {FALSE}, fileOutputBin : {FALSE}, checkError : {TRUE},
   resyncCounter : BOOLEAN, generatorPattern : {"Incremental", "Alternating", "Constant"},
   registerHammer : {FALSE}, removeSharedMemory : {FALSE}]

\* The runs whose counters are followed: those without pauses and display, and
\* a run with error checking.
CountOptions ==
  CoreOptions \cup
  [maxPages : {NUM_PAGES - 1}, legacyAck : {FALSE}, randomPauseSoft : {FALSE},
   randomPauseFirm : {FALSE}, verbose : {FALSE}, fifoDisplay : {FALSE},
   fileOutputAscii : {FALSE}, fileOutputBin : {FALSE}, checkError : {TRUE},
   resyncCounter : {FALSE}, generatorPattern : {"Incremental"},
   registerHammer : {FALSE}, removeSharedMemory : {FALSE}]

\* The runs whose threads and teardown are followed: with and without the
\* register hammer and the removal of the buffer file, without error check and
\* with the check of a pattern the validator knows or does not know.
ThreadOptions ==
  [maxPages : {1}, legacyAck : {FALSE}, randomPauseSoft : {FALSE},
   randomPauseFirm : {FALSE}, verbose : {FALSE}, fifoDisplay : {FALSE},
   fileOutputAscii : {FALSE}, fileOutputBin : {FALSE}, checkError : {FALSE},
   resyncCounter : {FALSE}, generatorPattern : {"Incremental"},
   registerHammer : BOOLEAN, removeSharedMemory : BOOLEAN]
  \cup
  [maxPages : {1}, legacyAck : {FALSE}, randomPauseSoft : {FALSE},
   randomPauseFirm : {FALSE}, verbose : {FALSE}, fifoDisplay : {FALSE},
   fileOutputAscii : {FALSE}, fileOutputBin : {FALSE}, checkError : {TRUE},
   resyncCounter : {FALSE}, generatorPattern : {"Incremental", "Unknown"},
   registerHammer : BOOLEAN, removeSharedMemory : BOOLEAN]

\* The verbose runs with the FIFO display, at every page limit.
DisplayOptions ==
  [maxPages : PageLimits, legacyAck : {FALSE}, randomPauseSoft : {FALSE},
   randomPauseFirm : {FALSE}, verbose : {TRUE}, fifoDisplay : {TRUE},
   fileOutputAscii : {FALSE}, fileOutputBin : {FALSE}, checkError : {FALSE},
   resyncCounter : {FALSE}, generatorPattern : {"Incremental"},
   registerHammer : {FALSE}, removeSharedMemory : {FALSE}]

\* The verbose runs with error checking that are long enough to have more
\* mismatches than are recorded.
RecordOptions ==
  [maxPages : {MAX_RECORDED_ERRORS + 1}, legacyAck : {FALSE}, randomPauseSoft : {FALSE},
   randomPauseFirm : {FALSE}, verbose : {TRUE}, fifoDisplay : {FALSE},
   fileOutputAscii : {FALSE}, fileOutputBin : {FALSE}, checkError : {TRUE},
   resyncCounter : {FALSE}, generatorPattern : {"Incremental"},
   registerHammer : {FALSE}, removeSharedMemory : {FALSE}]

\* The runs whose setup is followed: with every choice of the page exports,
\* with and without error checking, one page long.
SetupOptions ==
  [maxPages : {1}, legacyAck : {FALSE}, randomPauseSoft : {FALSE},
   randomPauseFirm : {FALSE}, verbose : {FALSE}, fifoDisplay : {FALSE},
   fileOutputAscii : BOOLEAN, fileOutputBin : BOOLEAN, checkError : BOOLEAN,
   resyncCounter : {FALSE}, generatorPattern : {"Incremental"},
   registerHammer : {FALSE}, removeSharedMemory : {FALSE}]

\* The page indexes setDescriptor is tried with: those of the pages, and
\* some under and over them.
PageIndexInputs == (0 - 1) .. (NUM_PAGES + ExtraPages + 1)

\* The words the card can have written to a page.  A page of the incremental
\* generator has its counter at every 8th word; the first words that are
\* tried are 256 apart, and the last of them is 256 before the wrap.
FirstWords == {Word(0, 100), Word(0, 356), Word(Half - 1, Half - 256), Word(0, 0)}
IncrementalPage(first) ==
  [i \in 0 .. (PageWords - 1) |->
     IF i % 8 = 0 THEN AddWord(first, i \div 8) ELSE BUFFER_DEFAULT_VALUE]
UniformPage(word) == [i \in 0 .. (PageWords - 1) |-> word]
\* A page with a wrong word at the second word that is compared.
DamagedPage(page) == [page EXCEPT ![PATTERN_STRIDE] = Word(0, 999)]
PageContents ==
  {IncrementalPage(first) : first \in FirstWords}
    \cup {DamagedPage(IncrementalPage(Word(0, 100))), DamagedPage(IncrementalPage(Word(0, 356)))}
    \cup {UniformPage(Word(42405, 42405)), UniformPage(Word(4660, 22136))}

Descriptors == 0 .. (NUM_PAGES - 1)
\* Card temperatures under and over the limit.
CoolTemperature == MAX_TEMPERATURE - 40
HotTemperature == MAX_TEMPERATURE + 10
\* A default-constructed TimePoint: the clock's epoch, long before the run.
EPOCH == 0 - 1000

VARIABLES
  pc,                   \* position of the primary thread
  ret,                  \* where fillReadoutQueue returns to
  pushed,               \* the local "pushed" of fillReadoutQueue
  mOptions,             \* the program options
  sgPages,              \* number of pages partitionScatterGatherList yields
  mInfinitePages,
  mPageAddresses,       \* mPageAddresses.size()
  mQueue,
  mPushCounter,
  mReadoutCounter,
  mDescriptorCounter,
  mPageIndexCounter,
  mLastFillSize,
  mPushEnabled,
  mDmaLoopBreak,
  mHandlingSigint,
  mHandlingSigintStart,
  mLowPriorityCounter,
  mLastDisplayUpdate,
  mRandomPausesSoft,
  mRandomPausesFirm,
  dataEmulatorControl,  \* last value written to DATA_EMULATOR_CONTROL
  controlWrites,        \* the values the last firmware pause step wrote to it, in order
  statusEntries,        \* mFifoAddress.user->statusEntries: arrived or not
  descriptorEntries,    \* mFifoAddress.user->descriptorEntries
  pages,                \* content of every page: "default" or "data"
  dataEmulatorEnabled,  \* the register BufferReadyGuard sets
  inFlight,             \* descriptors pushed to the card and not yet served
  ackCount,             \* number of sendAcknowledge() register writes
  examinedCount,        \* pages that went through export and validation
  popCounter,           \* number of mQueue.pop() calls (history)
  printed,              \* the outcome messages the run has printed
  sigInt,               \* Program::isSigInt()
  now,                  \* high_resolution_clock::now()
  mMaxExceeded,
  mValidFlag,
  monitor,              \* state of the temperature monitor thread
  stopFlag,             \* the monitor thread's stop flag
  stats,                \* the "Pages" line of outputStats, once printed
  temperature,          \* the card's temperature, in degrees
  hotSampled,           \* the monitor has done a loop turn on a card over the limit
  chkPage,              \* checkErrors: the words of the page of the handle
  chkCounter,           \* checkErrors: the argument "counter"
  chkPattern,           \* checkErrors: the argument "pattern"
  chkHandle,            \* checkErrors: the argument "handle"
  chkEvent,             \* checkErrors: the argument "eventNumber"
  chkResult,            \* checkErrors: what the call returned, once it has
  mErrorCount,
  mErrorStream,         \* the lines written to mErrorStream
  mDataGeneratorCounter,
  mReadoutStream,       \* the export file: how it was opened, what was written
  mFifoAddress,         \* mFifoAddress.bus
  bar,                  \* the card registers initCard writes
  sdPageIndex,          \* setDescriptor: the argument "pageIndex"
  sdDescriptorIndex,    \* setDescriptor: the argument "descriptorIndex"
  sdResult,             \* setDescriptor: how the call ended, once it has
  pageMemory,           \* resetPage: the words of the pages of the buffer
  rsIndex,              \* resetPage: the page of the last call
  rsCalls,              \* resetPage: the calls made
  header,               \* DataFormat: the bytes "data" points to
  hdrLinkId,            \* DataFormat: what getLinkId returned, once it has
  hdrEventSize,         \* DataFormat: what getEventSize returned, once it has
  hdrPacketCounter,     \* DataFormat: what getPacketCounter returned, once it has
  tableSize,            \* initFifo: sizeof(CruFifoTable)
  fifoSpace,            \* initFifo: the space reserved for the table, once computed
  hammer,               \* state of the register hammer thread
  hammerStop,           \* the hammer thread's stop flag
  hammerReg,            \* what the hammer thread's reference "reg" is bound to
  hammerTurns,          \* the turns of the hammer's loop that are done
  released,             \* the BAR mapping and the DMA buffer are released
  bufferFileRemoved     \* the file of the shared DMA buffer is removed

ringVars == <<statusEntries, descriptorEntries, pages, inFlight>>
queueVars == <<mQueue, mPushCounter, mDescriptorCounter, mPageIndexCounter>>
optVars == <<mOptions, sgPages, mInfinitePages, mPageAddresses>>
ctlVars == <<mPushEnabled, mDmaLoopBreak, mHandlingSigint, mHandlingSigintStart,
             mLowPriorityCounter, printed>>
pauseVars == <<mLastDisplayUpdate, mRandomPausesSoft, mRandomPausesFirm,
               dataEmulatorControl, controlWrites>>
envVars == <<sigInt, now>>
monVars == <<mMaxExceeded, mValidFlag, monitor, stopFlag>>
cntVars == <<mReadoutCounter, ackCount, examinedCount, popCounter>>
fillVars == <<ret, pushed, mLastFillSize>>
cardVars == <<temperature, hotSampled>>
checkVars == <<chkPage, chkCounter, chkPattern, chkHandle, chkEvent, chkResult,
               mErrorCount, mErrorStream, mDataGeneratorCounter>>
setupVars == <<mReadoutStream, mFifoAddress, bar>>
descVars == <<sdPageIndex, sdDescriptorIndex, sdResult>>
resetVars == <<pageMemory, rsIndex, rsCalls>>
headerVars == <<header, hdrLinkId, hdrEventSize, hdrPacketCounter>>
reserveVars == <<tableSize, fifoSpace>>
\* The state of the functions that are followed one call at a time.
callVars == <<resetVars, headerVars, reserveVars>>
hammerVars == <<hammer, hammerStop, hammerReg, hammerTurns>>
tearVars == <<released, bufferFileRemoved>>
threadVars == <<hammerVars, tearVars>>
\* What the readout loop of the modelled runs leaves alone.
sideVars == <<stats, cardVars, checkVars, setupVars, descVars, callVars, threadVars>>
runVars == <<pc, ringVars, queueVars, optVars, ctlVars, pauseVars, envVars, monVars,
             cntVars, fillVars, dataEmulatorEnabled>>

vars == <<runVars, sideVars>>

\* ------------------------------------------------------------- helpers
Handle(d, p) == [descriptorIndex |-> d, pageIndex |-> p]

\* The mapped buffer file outlives a run: the table and the pages hold
\* whatever the previous run left.
Garbage == [length |-> 0, source |-> 0, destination |-> -1]

\* mPageAddresses.at(pageIndex) of setDescriptor finds the page.
PageIndexValid(pageIndex, size) == pageIndex \in 0 .. (size - 1)

\* setDescriptor taking the source address from the page index.
SetDescriptorEntry_sourceByPage(table, pageIndex, descriptorIndex) ==
  [table EXCEPT ![descriptorIndex] =
     [length |-> DMA_PAGE_SIZE_32,
      source |-> (pageIndex % NUM_OF_BUFFERS) * DMA_PAGE_SIZE,
      destination |-> pageIndex]]

\* setDescriptor(pageIndex, descriptorIndex) on the descriptor table.
SetDescriptorEntry(table, pageIndex, descriptorIndex) ==
  [table EXCEPT ![descriptorIndex] =
     [length |-> DMA_PAGE_SIZE_32,
      source |-> (descriptorIndex % NUM_OF_BUFFERS) * DMA_PAGE_SIZE,
      destination |-> pageIndex]]

\* A queue that overwrites its oldest entry one entry early.
QueuePush_oneLess(q, h) ==
  IF Len(q) < NUM_PAGES - 1 THEN Append(q, h) ELSE Append(Tail(q), h)

\* boost::circular_buffer::push_back through std::queue::push: a full
\* buffer overwrites its oldest element.
QueuePush(q, h) ==
  IF Len(q) < NUM_PAGES THEN Append(q, h) ELSE Append(Tail(q), h)

\* shouldPushQueue pushing one page over the limit.
shouldPushQueue_overLimit ==
  /\ Len(mQueue) < NUM_PAGES
  /\ (mInfinitePages \/ mPushCounter <= mOptions.maxPages)
  /\ mPushEnabled

\* shouldPushQueue without the capacity test.
shouldPushQueue_noCapacity ==
  /\ (mInfinitePages \/ mPushCounter < mOptions.maxPages)
  /\ mPushEnabled

shouldPushQueue ==
  /\ Len(mQueue) < NUM_PAGES
  /\ (mInfinitePages \/ mPushCounter < mOptions.maxPages)
  /\ mPushEnabled

isPageArrived(handle) == statusEntries[handle.descriptorIndex]

\* readoutQueueHasPageAvailable without the arrival test.
readoutQueueHasPageAvailable_noArrival == mQueue # <<>>

readoutQueueHasPageAvailable ==
  /\ mQueue # <<>>
  /\ isPageArrived(Head(mQueue))

\* An alignment test that accepts every address.
checkAlignment_always(address, alignment) == TRUE

\* Stuff::checkAlignment.
checkAlignment(address, alignment) == (address % alignment) = 0

\* The registers of the card before initCard: none is written.
NotWritten == 0 - 1
NoRegisters ==
  [fifoBusAddress |-> NotWritten, fifoCardAddress |-> FALSE,
   descriptorTableSize |-> FALSE, doneControl |-> FALSE,
   dataGeneratorPattern |-> "none"]

\* An export file that was not opened.
NoStream == [open |-> "closed", written |-> <<>>]

\* int64_t mDataGeneratorCounter: the part over 32 bits, and the two halves
\* of the lower 32 bits.
Int64(top, hi, lo) == <<top, hi, lo>>
\* The initializer -1.
NotSeeded == Int64(0 - 1, Half - 1, Half - 1)
\* uint32_t to int64_t, and int64_t to the uint32_t parameter "counter".
FromWord(w) == Int64(0, w[1], w[2])
ToWord(c) == Word(c[2], c[3])
\* int64_t addition of a small number.
AddInt64(c, k) ==
  Int64(c[1] + ((c[2] + ((c[3] + k) \div Half)) \div Half),
        (c[2] + ((c[3] + k) \div Half)) % Half,
        (c[3] + k) % Half)

\* ------------------------------------------------------------- checkErrors
Patterns == {"Incremental", "Alternating", "Constant", "Unknown"}

\* The lambdas of the switch: the value the pattern has at word i.
PatternExpected(pattern, counter, i) ==
  CASE pattern = "Incremental" -> AddWord(counter, i \div 8)
    [] pattern = "Alternating" -> Word(42405, 42405)
    [] pattern = "Constant" -> Word(4660, 22136)

\* A check that looks at every word of the page.
RECURSIVE CheckLoop_everyWord(_, _, _, _)
CheckLoop_everyWord(pattern, counter, page, i) ==
  IF ~(i < PageWords) THEN [found |-> FALSE]
  ELSE IF page[i] # PatternExpected(pattern, counter, i)
    THEN [found |-> TRUE, i |-> i, exp |-> PatternExpected(pattern, counter, i),
          val |-> page[i]]
    ELSE CheckLoop_everyWord(pattern, counter, page, i + 1)

\* The loop of the lambda "check", from word i on: the first mismatch, if any.
RECURSIVE CheckLoop(_, _, _, _)
CheckLoop(pattern, counter, page, i) ==
  IF ~(i < PageWords) THEN [found |-> FALSE]
  ELSE IF page[i] # PatternExpected(pattern, counter, i)
    THEN [found |-> TRUE, i |-> i, exp |-> PatternExpected(pattern, counter, i),
          val |-> page[i]]
    ELSE CheckLoop(pattern, counter, page, i + PATTERN_STRIDE)

\* The line checkErrors writes to mErrorStream.
ErrorLine(event, handle, found) ==
  [event |-> event, page |-> handle.pageIndex, i |-> found.i, exp |-> found.exp,
   val |-> found.val]

\* A switch with the case of the incremental pattern only.
RecognizedPattern_incrementalOnly(pattern) == pattern = "Incremental"

\* The cases of the switch on the pattern.
RecognizedPattern(pattern) == pattern \in {"Incremental", "Alternating", "Constant"}

\* A line for every mismatch of a verbose run.
RecordsLine_always(errorCount) == mOptions.verbose

\* "isVerbose() && mErrorCount < MAX_RECORDED_ERRORS", after the increment.
RecordsLine(errorCount) == mOptions.verbose /\ errorCount < MAX_RECORDED_ERRORS

\* checkErrors that does not count the mismatch.
CheckOutcome_uncounted(pattern, handle, eventNumber, counter, page) ==
  IF RecognizedPattern(pattern)
    THEN [result |-> IF CheckLoop(pattern, counter, page, 0).found THEN "true" ELSE "false",
          errorCount |-> mErrorCount, stream |-> mErrorStream]
    ELSE [result |-> "exception", errorCount |-> mErrorCount, stream |-> mErrorStream]

\* checkErrors(pattern, handle, eventNumber, counter) on a page with these
\* words: what it returns, and mErrorCount and mErrorStream after it.
CheckOutcome(pattern, handle, eventNumber, counter, page) ==
  IF RecognizedPattern(pattern)
    THEN LET found == CheckLoop(pattern, counter, page, 0)
         IN  IF found.found
               THEN [result |-> "true", errorCount |-> mErrorCount + 1,
                     stream |->
                       IF RecordsLine(mErrorCount + 1)
                         THEN Append(mErrorStream, ErrorLine(eventNumber, handle, found))
                         ELSE mErrorStream]
               ELSE [result |-> "false", errorCount |-> mErrorCount,
                     stream |-> mErrorStream]
    ELSE [result |-> "exception", errorCount |-> mErrorCount, stream |-> mErrorStream]

\* readoutPage initializing the counter from every page.
SeedCounter_everyPage(counter, page) == FromWord(page[0])

\* readoutPage: the counter checkErrors is called with.  The first page
\* initializes it.
SeedCounter(counter, page) ==
  IF counter = NotSeeded THEN FromWord(page[0]) ELSE counter

\* readoutPage without the resynchronization.
ResyncCounter_never(counter, page, hasError) == counter

\* readoutPage: the counter after the check.
ResyncCounter(counter, page, hasError) ==
  IF hasError /\ mOptions.resyncCounter THEN FromWord(page[0]) ELSE counter

\* The literal of "mDataGeneratorCounter += 256" in readoutPage.
COUNTER_INCREMENT == 256

\* printToFile(handle, pageNumber) of a page with these words.
printToFile(handle, pageNumber, page) ==
  IF mOptions.fileOutputAscii
    THEN [mReadoutStream EXCEPT !.written =
            Append(@, [event |-> pageNumber, buffer |-> handle.pageIndex, words |-> page])]
  ELSE IF mOptions.fileOutputBin
    THEN [mReadoutStream EXCEPT !.written = Append(@, [words |-> page])]
  ELSE mReadoutStream

\* ---------------------------------------------------------------- Init
\* The program after construction, with its options parsed, and the card.
\* What the reference "reg" of the hammer thread can be bound to: nothing yet,
\* the debug register of the BAR, or a word of a page of the buffer.
Unbound == <<"unbound", 0>>
DebugRegister == <<"DEBUG_READ_WRITE", 0>>
PageWord(p) == <<"page", p>>

InitRun(options, sizes) ==
  /\ pc = "run"
  /\ ret = "arm"
  /\ pushed = 0
  /\ mOptions \in options
  /\ sgPages \in sizes
  /\ mInfinitePages = FALSE
  /\ mPageAddresses = 0
  /\ mQueue = <<>>
  /\ mPushCounter = 0
  /\ mReadoutCounter = 0
  /\ mDescriptorCounter = 0
  /\ mPageIndexCounter = 0
  /\ mLastFillSize = 0
  /\ mPushEnabled = TRUE
  /\ mDmaLoopBreak = FALSE
  /\ mHandlingSigint = FALSE
  /\ mHandlingSigintStart = 0
  /\ mLowPriorityCounter = 0
  /\ mLastDisplayUpdate = EPOCH
  /\ mRandomPausesSoft = [next |-> EPOCH, length |-> 0]
  /\ mRandomPausesFirm = [isPaused |-> FALSE, next |-> EPOCH, length |-> 0]
  /\ dataEmulatorControl = 0
  /\ controlWrites = <<>>
  /\ \E stale \in BOOLEAN :
       /\ statusEntries = [d \in Descriptors |-> stale]
       /\ pages = [p \in 0 .. (sgPages - 1) |-> IF stale THEN "data" ELSE "default"]
  /\ descriptorEntries = [d \in Descriptors |-> Garbage]
  /\ dataEmulatorEnabled = FALSE
  /\ inFlight = {}
  /\ ackCount = 0
  /\ examinedCount = 0
  /\ popCounter = 0
  /\ printed = {}
  /\ sigInt = FALSE
  /\ now = 0
  /\ mMaxExceeded = FALSE
  /\ mValidFlag = FALSE
  /\ monitor = "notStarted"
  /\ stopFlag = FALSE
  /\ stats = <<>>
  /\ temperature = CoolTemperature
  /\ hotSampled = FALSE
  /\ hammer = "notStarted"
  /\ hammerStop = FALSE
  /\ hammerReg = Unbound
  /\ hammerTurns = 0
  /\ released = FALSE
  /\ bufferFileRemoved = FALSE

\* No call of checkErrors is followed: the runs are without error check and
\* without file output.
InitNoCheck ==
  /\ chkPage = [i \in 0 .. (PageWords - 1) |-> BUFFER_DEFAULT_VALUE]
  /\ chkCounter = 0
  /\ chkPattern = "Incremental"
  /\ chkHandle = Handle(0, 0)
  /\ chkEvent = 0
  /\ chkResult = "none"
  /\ mErrorCount = 0
  /\ mErrorStream = <<>>
  /\ mDataGeneratorCounter = NotSeeded

\* The bus addresses of the table that are tried: aligned ones, and ones that
\* are off by a word and by half the alignment.
AlignedAddresses == {0, 4 * DMA_ALIGNMENT}
MisalignedAddresses == {4, DMA_ALIGNMENT \div 2, (4 * DMA_ALIGNMENT) + 4}

\* No export file is open, the table is at one of the addresses, the card's
\* registers are not written.
InitTable(addresses) ==
  /\ mReadoutStream = NoStream
  /\ mFifoAddress \in addresses
  /\ bar = NoRegisters
  /\ sdPageIndex = 0
  /\ sdDescriptorIndex = 0
  /\ sdResult = "none"

\* A page of the buffer after resetBuffer.
DefaultPage == [i \in 0 .. (PageWords - 1) |-> BUFFER_DEFAULT_VALUE]

\* The pages of the buffer that are followed word by word.
MemoryPages == 0 .. 1

\* A result that has not been computed.
NotComputed == 0 - 1

\* resetPage has not been called; the buffer is as resetBuffer leaves it.
InitNoReset ==
  /\ pageMemory = [p \in MemoryPages |-> DefaultPage]
  /\ rsIndex = 0
  /\ rsCalls = 0

\* The size of a page header in bytes: getHeaderSize().
HeaderSize == 64

\* No header is decoded.
InitNoHeader ==
  /\ header = [b \in 0 .. (HeaderSize - 1) |-> 0]
  /\ hdrLinkId = NotComputed
  /\ hdrEventSize = NotComputed
  /\ hdrPacketCounter = NotComputed

\* The reservation of the table's space is not followed.
InitNoReserve ==
  /\ tableSize = NotComputed
  /\ fifoSpace = NotComputed

InitNoCalls == InitNoReset /\ InitNoHeader /\ InitNoReserve

InitDevice(addresses) == InitTable(addresses) /\ InitNoCalls

Init == InitRun(OptionSets, PartitionSizes) /\ InitNoCheck /\ InitDevice({4 * DMA_ALIGNMENT})

\* ------------------------------------------------- primary thread: setup
\* run: mReadoutStream.open("readout_data.txt") or, with ios::binary,
\* open("readout_data.bin"), for the export that is selected.
OpenReadoutStream ==
  IF mOptions.fileOutputAscii THEN [open |-> "ascii", written |-> <<>>]
  ELSE IF mOptions.fileOutputBin THEN [open |-> "binary", written |-> <<>>]
  ELSE mReadoutStream

\* run() accepting both exports.
ConflictingSinks_never == FALSE

\* run: "mOptions.fileOutputAscii && mOptions.fileOutputBin".
ConflictingSinks == mOptions.fileOutputAscii /\ mOptions.fileOutputBin

\* run() taking only a negative limit for unlimited.
Run_negativeOnly ==
  /\ pc = "run"
  /\ IF ConflictingSinks
       THEN /\ pc' = "failed"
            /\ UNCHANGED <<mReadoutStream, mInfinitePages>>
       ELSE /\ mReadoutStream' = OpenReadoutStream
            /\ mInfinitePages' = (mOptions.maxPages < 0)
            /\ pc' = "initDma"
  /\ UNCHANGED <<ringVars, queueVars, mOptions, sgPages, mPageAddresses,
                 ctlVars, pauseVars, envVars, monVars, cntVars, fillVars, dataEmulatorEnabled>>
  /\ UNCHANGED <<stats, cardVars, checkVars, mFifoAddress, bar, descVars, callVars, threadVars>>

\* run(), up to the call of initDma.
Run ==
  /\ pc = "run"
  /\ IF ConflictingSinks
       THEN /\ pc' = "failed"
            /\ UNCHANGED <<mReadoutStream, mInfinitePages>>
       ELSE /\ mReadoutStream' = OpenReadoutStream
            /\ mInfinitePages' = (mOptions.maxPages <= 0)
            /\ pc' = "initDma"
  /\ UNCHANGED <<ringVars, queueVars, mOptions, sgPages, mPageAddresses,
                 ctlVars, pauseVars, envVars, monVars, cntVars, fillVars, dataEmulatorEnabled>>
  /\ UNCHANGED <<stats, cardVars, checkVars, mFifoAddress, bar, descVars, callVars, threadVars>>

\* initFifo accepting as many pages as the ring has entries.
InsufficientPages_strict(size) == size < NUM_PAGES

\* initFifo: "mPageAddresses.size() <= NUM_PAGES".
InsufficientPages(size) == size <= NUM_PAGES

\* initFifo that leaves the descriptors as they are.
InitDescriptors_none(table, i, size) == table

\* initFifo: the table after resetStatusEntries and setDescriptor(i, i) for all i.
\* The loop stops at the first page index at() does not find.
RECURSIVE InitDescriptors(_, _, _)
InitDescriptors(table, i, size) ==
  IF i = NUM_PAGES \/ ~PageIndexValid(i, size) THEN table
  ELSE InitDescriptors(SetDescriptorEntry(table, i, i), i + 1, size)

\* initDma up to the call of initCard: initPda, initFifo, resetBuffer, resetCard.
InitDma ==
  /\ pc = "initDma"
  /\ mPageAddresses' = sgPages
  /\ IF InsufficientPages(sgPages)
       THEN /\ pc' = "failed"
            /\ UNCHANGED ringVars
       ELSE /\ statusEntries' = [d \in Descriptors |-> FALSE]
            /\ descriptorEntries' = InitDescriptors(descriptorEntries, 0, sgPages)
            /\ IF \A i \in Descriptors : PageIndexValid(i, sgPages)
                 THEN /\ pages' = [p \in DOMAIN pages |-> "default"]
                      /\ pc' = "initCard"
                 ELSE /\ pages' = pages
                      /\ pc' = "failed"
            /\ UNCHANGED inFlight
  /\ UNCHANGED <<queueVars, mOptions, sgPages, mInfinitePages,
                 ctlVars, pauseVars, envVars, monVars, cntVars, fillVars, dataEmulatorEnabled>>
  /\ UNCHANGED sideVars

\* initCard: the alignment test, then the registers of the table.
InitCard ==
  /\ pc = "initCard"
  /\ IF ~checkAlignment(mFifoAddress, DMA_ALIGNMENT)
       THEN /\ pc' = "failed"
            /\ UNCHANGED bar
       ELSE /\ bar' = [fifoBusAddress |-> mFifoAddress, fifoCardAddress |-> TRUE,
                       descriptorTableSize |-> TRUE, doneControl |-> TRUE,
                       dataGeneratorPattern |->
                         IF mOptions.checkError THEN mOptions.generatorPattern
                         ELSE bar.dataGeneratorPattern]
            /\ pc' = "startMonitor"
  /\ UNCHANGED <<ringVars, queueVars, optVars, ctlVars, pauseVars, envVars, monVars, cntVars,
                 fillVars, dataEmulatorEnabled>>
  /\ UNCHANGED <<stats, cardVars, checkVars, mReadoutStream, mFifoAddress, descVars, callVars, threadVars>>

\* run: mTemperatureMonitor.start(&bar(0)), then mRegisterHammer.start(&bar(0))
\* with --reg-hammer.
StartMonitor ==
  /\ pc = "startMonitor"
  /\ monitor' = "running"
  /\ hammer' = IF mOptions.registerHammer THEN "running" ELSE hammer
  /\ pc' = "runDma"
  /\ UNCHANGED <<ringVars, queueVars, optVars, ctlVars, pauseVars, envVars, mMaxExceeded,
                 mValidFlag, stopFlag, cntVars, fillVars, dataEmulatorEnabled>>
  /\ UNCHANGED <<stats, cardVars, checkVars, setupVars, descVars, callVars,
                 hammerStop, hammerReg, hammerTurns, tearVars>>

\* runDma up to the first fillReadoutQueue().
RunDma ==
  /\ pc = "runDma"
  /\ pc' = "fill"
  /\ ret' = "arm"
  /\ pushed' = 0
  /\ UNCHANGED <<ringVars, queueVars, optVars, ctlVars, pauseVars, envVars, monVars, cntVars,
                 mLastFillSize, dataEmulatorEnabled>>
  /\ UNCHANGED sideVars

\* --------------------------------------------- fillReadoutQueue, pushPage
\* One test of "while (shouldPushQueue())" and, when it fails, the rest of
\* fillReadoutQueue.
FillTest ==
  /\ pc = "fill"
  /\ IF shouldPushQueue
       THEN /\ pc' = "pushPage"
            /\ UNCHANGED <<ret, pushed, mLastFillSize>>
       ELSE /\ mLastFillSize' = IF pushed # 0 THEN pushed ELSE mLastFillSize
            /\ pc' = ret
            /\ UNCHANGED <<ret, pushed>>
  /\ UNCHANGED <<ringVars, queueVars, optVars, ctlVars, pauseVars, envVars, monVars, cntVars,
                 dataEmulatorEnabled>>
  /\ UNCHANGED sideVars

\* pushPage: setDescriptor(mPageIndexCounter, mDescriptorCounter).  The card
\* sees the descriptor from here on.
PushSetDescriptor ==
  /\ pc = "pushPage"
  /\ mPushCounter < MaxPush
  /\ IF PageIndexValid(mPageIndexCounter, mPageAddresses)
       THEN /\ descriptorEntries' =
                 SetDescriptorEntry(descriptorEntries, mPageIndexCounter, mDescriptorCounter)
            /\ inFlight' = inFlight \cup {mDescriptorCounter}
            /\ pc' = "pushEnqueue"
            /\ UNCHANGED dataEmulatorEnabled
       ELSE /\ pc' = "failed"
            /\ dataEmulatorEnabled' = FALSE
            /\ UNCHANGED <<descriptorEntries, inFlight>>
  /\ UNCHANGED <<statusEntries, pages, queueVars, optVars, ctlVars, pauseVars, envVars,
                 monVars, cntVars, fillVars>>
  /\ UNCHANGED sideVars

\* pushPage cycling the page index over the ring capacity.
PushEnqueue_pageModRing ==
  /\ pc = "pushEnqueue"
  /\ mQueue' = QueuePush(mQueue, Handle(mDescriptorCounter, mPageIndexCounter))
  /\ mDescriptorCounter' = (mDescriptorCounter + 1) % NUM_PAGES
  /\ mPageIndexCounter' = (mPageIndexCounter + 1) % NUM_PAGES
  /\ mPushCounter' = mPushCounter + 1
  /\ pushed' = pushed + 1
  /\ pc' = "fill"
  /\ UNCHANGED <<ringVars, optVars, ctlVars, pauseVars, envVars, monVars, cntVars, ret,
                 mLastFillSize, dataEmulatorEnabled>>
  /\ UNCHANGED sideVars

\* pushPage cycling the page index over the card's buffer pool.
PushEnqueue_pageModBuffers ==
  /\ pc = "pushEnqueue"
  /\ mQueue' = QueuePush(mQueue, Handle(mDescriptorCounter, mPageIndexCounter))
  /\ mDescriptorCounter' = (mDescriptorCounter + 1) % NUM_PAGES
  /\ mPageIndexCounter' = (mPageIndexCounter + 1) % NUM_OF_BUFFERS
  /\ mPushCounter' = mPushCounter + 1
  /\ pushed' = pushed + 1
  /\ pc' = "fill"
  /\ UNCHANGED <<ringVars, optVars, ctlVars, pauseVars, envVars, monVars, cntVars, ret,
                 mLastFillSize, dataEmulatorEnabled>>
  /\ UNCHANGED sideVars

\* pushPage: mQueue.push and the counters; then "pushed++" of fillReadoutQueue.
PushEnqueue ==
  /\ pc = "pushEnqueue"
  /\ mQueue' = QueuePush(mQueue, Handle(mDescriptorCounter, mPageIndexCounter))
  /\ mDescriptorCounter' = (mDescriptorCounter + 1) % NUM_PAGES
  /\ mPageIndexCounter' = (mPageIndexCounter + 1) % mPageAddresses
  /\ mPushCounter' = mPushCounter + 1
  /\ pushed' = pushed + 1
  /\ pc' = "fill"
  /\ UNCHANGED <<ringVars, optVars, ctlVars, pauseVars, envVars, monVars, cntVars, ret,
                 mLastFillSize, dataEmulatorEnabled>>
  /\ UNCHANGED sideVars

\* BufferReadyGuard bufferReadyGuard {mPdaBar.get()}: setDataEmulatorEnabled(true).
Arm ==
  /\ pc = "arm"
  /\ dataEmulatorEnabled' = TRUE
  /\ pc' = "loopTop"
  /\ UNCHANGED <<ringVars, queueVars, optVars, ctlVars, pauseVars, envVars, monVars, cntVars,
                 fillVars>>
  /\ UNCHANGED sideVars

\* ------------------------------------------------------- the readout loop
\* A page-limit test that needs more than the limit.
LoopTop_strict ==
  /\ pc = "loopTop"
  /\ IF ~mInfinitePages /\ mReadoutCounter > mOptions.maxPages
       THEN /\ printed' = printed \cup {"Maximum amount of pages reached"}
            /\ pc' = "finish"
       ELSE /\ printed' = printed
            /\ pc' = IF mDmaLoopBreak THEN "finish" ELSE "lowPriority"
  /\ UNCHANGED <<ringVars, queueVars, optVars, mPushEnabled, mDmaLoopBreak,
                 mHandlingSigint, mHandlingSigintStart, mLowPriorityCounter,
                 pauseVars, envVars, monVars, cntVars, fillVars, dataEmulatorEnabled>>
  /\ UNCHANGED sideVars

\* The two stop tests at the top of "while (true)".
LoopTop ==
  /\ pc = "loopTop"
  /\ IF ~mInfinitePages /\ mReadoutCounter >= mOptions.maxPages
       THEN /\ printed' = printed \cup {"Maximum amount of pages reached"}
            /\ pc' = "finish"
       ELSE /\ printed' = printed
            /\ pc' = IF mDmaLoopBreak THEN "finish" ELSE "lowPriority"
  /\ UNCHANGED <<ringVars, queueVars, optVars, mPushEnabled, mDmaLoopBreak,
                 mHandlingSigint, mHandlingSigintStart, mLowPriorityCounter,
                 pauseVars, envVars, monVars, cntVars, fillVars, dataEmulatorEnabled>>
  /\ UNCHANGED sideVars

\* Utilities::getRandRange(min, max).
getRandRange(min, max) == min .. max

\* isVerbose() && isStatusDisplayInterval(), read at time t.
StatusDisplayDue(t) ==
  mOptions.verbose /\ (t - mLastDisplayUpdate) > DISPLAY_INTERVAL

\* lowPriorityTasks: the status display update.  updateStatusDisplay only
\* prints (with --show-fifo it reads mQueue.front()).
StatusDisplay(t) ==
  mLastDisplayUpdate' = IF StatusDisplayDue(t) THEN t ELSE mLastDisplayUpdate

\* lowPriorityTasks: the software pause, entered at time t and left at time t1.
SoftPause(t, t1) ==
  IF mOptions.randomPauseSoft /\ t >= mRandomPausesSoft.next
    THEN /\ t1 \in (t + mRandomPausesSoft.length) .. MaxTime
         /\ \E n \in getRandRange(NEXT_PAUSE_MIN, NEXT_PAUSE_MAX),
               l \in getRandRange(PAUSE_LENGTH_MIN, PAUSE_LENGTH_MAX) :
              mRandomPausesSoft' = [next |-> t1 + n, length |-> l]
    ELSE /\ t1 = t
         /\ UNCHANGED mRandomPausesSoft

\* The firmware pause resuming as soon as the trigger time has passed.
ResumeDue_atTrigger(t) == t >= mRandomPausesFirm.next

\* lowPriorityTasks: "now >= mRandomPausesFirm.next + mRandomPausesFirm.length".
ResumeDue(t) == t >= mRandomPausesFirm.next + mRandomPausesFirm.length

\* lowPriorityTasks: the firmware pause, at time t: the write of 0x1 when a
\* pause is due, then the write of 0x3 and the next schedule when the pause
\* has lasted.
FirmPause(t) ==
  LET pauseNow == ~mRandomPausesFirm.isPaused /\ t >= mRandomPausesFirm.next
      paused == mRandomPausesFirm.isPaused \/ pauseNow
      resumeNow == paused /\ ResumeDue(t)
  IN  IF ~mOptions.randomPauseFirm
        THEN UNCHANGED <<mRandomPausesFirm, dataEmulatorControl, controlWrites>>
        ELSE /\ controlWrites' = (IF pauseNow THEN <<1>> ELSE <<>>)
                                   \o (IF resumeNow THEN <<3>> ELSE <<>>)
             /\ IF resumeNow
                  THEN /\ dataEmulatorControl' = 3
                       /\ \E n \in getRandRange(NEXT_PAUSE_MIN, NEXT_PAUSE_MAX),
                             l \in getRandRange(PAUSE_LENGTH_MIN, PAUSE_LENGTH_MAX) :
                            mRandomPausesFirm' =
                              [isPaused |-> FALSE, next |-> t + n, length |-> l]
                  ELSE /\ dataEmulatorControl' = IF pauseNow THEN 1 ELSE dataEmulatorControl
                       /\ mRandomPausesFirm' = [mRandomPausesFirm EXCEPT !.isPaused = paused]

\* lowPriorityTasks: the SIGINT abort, at time t.  The first observation stops
\* the pushing and starts the drain.
SigIntStart(t) == IF ~mHandlingSigint THEN t ELSE mHandlingSigintStart

\* The SIGINT abort leaving the pushing enabled.
HandleSigInt_keepPushing(t) ==
  /\ mHandlingSigintStart' = SigIntStart(t)
  /\ mHandlingSigint' = TRUE
  /\ mPushEnabled' = mPushEnabled

HandleSigInt(t) ==
  /\ mHandlingSigintStart' = SigIntStart(t)
  /\ mHandlingSigint' = TRUE
  /\ mPushEnabled' = IF ~mHandlingSigint THEN FALSE ELSE mPushEnabled

\* A drain that has timed out as soon as it starts.
DrainTimedOut_atStart(t) == (t - SigIntStart(t)) >= 0

\* A drain without timeout.
DrainTimedOut_never(t) == FALSE

\* lowPriorityTasks: the drain timeout test, at time t.
DrainTimedOut(t) == (t - SigIntStart(t)) > HANDLING_SIGINT_TIMEOUT

NoOutcome == "none"

\* The SIGINT abort testing the timeout before the queue.
SigIntOutcome_timeoutFirst(t) ==
  IF DrainTimedOut(t) THEN "Interrupted (did not finish readout queue)"
  ELSE IF Len(mQueue) = 0 THEN "Interrupted"
  ELSE NoOutcome

\* The SIGINT abort that ends the run only on the timeout.
SigIntOutcome_timeoutOnly(t) ==
  IF DrainTimedOut(t) THEN "Interrupted (did not finish readout queue)"
  ELSE NoOutcome

\* lowPriorityTasks: the outcome the SIGINT abort reports at time t, if any.
SigIntOutcome(t) ==
  IF Len(mQueue) = 0 THEN "Interrupted"
  ELSE IF DrainTimedOut(t) THEN "Interrupted (did not finish readout queue)"
  ELSE NoOutcome

\* A monitor whose flag is never seen.
isMaxExceeded_never == FALSE

\* TemperatureMonitor::isMaxExceeded().
isMaxExceeded == mMaxExceeded

\* lowPriorityTasks returning on all but every LOW_PRIORITY_INTERVAL-th call.
LowPrioritySkipped_oneInInterval == mLowPriorityCounter < (LOW_PRIORITY_INTERVAL - 1)

\* lowPriorityTasks: "if (mLowPriorityCounter < LOW_PRIORITY_INTERVAL)".
LowPrioritySkipped == mLowPriorityCounter < LOW_PRIORITY_INTERVAL

\* lowPriorityTasks(), then the call of fillReadoutQueue() that follows it.
LowPriorityTasks ==
  /\ pc = "lowPriority"
  /\ IF LowPrioritySkipped
       THEN /\ mLowPriorityCounter' = mLowPriorityCounter + 1
            /\ UNCHANGED <<mPushEnabled, mDmaLoopBreak, mHandlingSigint,
                           mHandlingSigintStart, printed, pauseVars, now>>
       ELSE /\ mLowPriorityCounter' = 0
            /\ IF isMaxExceeded
                 THEN /\ mDmaLoopBreak' = TRUE
                      /\ printed' = printed \cup {"ABORTING: MAX TEMPERATURE EXCEEDED"}
                      /\ UNCHANGED <<mPushEnabled, mHandlingSigint, mHandlingSigintStart,
                                     pauseVars, now>>
                 ELSE /\ IF sigInt
                           THEN HandleSigInt(now)
                           ELSE UNCHANGED <<mPushEnabled, mHandlingSigint,
                                            mHandlingSigintStart>>
                      /\ IF sigInt /\ SigIntOutcome(now) # NoOutcome
                           THEN /\ printed' = printed \cup {SigIntOutcome(now)}
                                /\ mDmaLoopBreak' = TRUE
                                /\ UNCHANGED <<pauseVars, now>>
                           ELSE /\ UNCHANGED <<printed, mDmaLoopBreak>>
                                /\ StatusDisplay(now)
                                /\ \E t1 \in now .. MaxTime :
                                     /\ SoftPause(now, t1)
                                     /\ FirmPause(t1)
                                     /\ now' = t1
  /\ pc' = "fill"
  /\ ret' = "poll"
  /\ pushed' = 0
  /\ UNCHANGED <<ringVars, queueVars, optVars, sigInt, monVars, cntVars,
                 mLastFillSize, dataEmulatorEnabled>>
  /\ UNCHANGED sideVars

\* if (readoutQueueHasPageAvailable())
Poll ==
  /\ pc = "poll"
  /\ pc' = IF readoutQueueHasPageAvailable THEN "readoutPage" ELSE "loopTop"
  /\ UNCHANGED <<ringVars, queueVars, optVars, ctlVars, pauseVars, envVars, monVars, cntVars,
                 fillVars, dataEmulatorEnabled>>
  /\ UNCHANGED sideVars

\* readoutPage(mQueue.front()): file output and error checking.  The words
\* of the page are those the card has written to it.
ReadoutExamine ==
  /\ pc = "readoutPage"
  /\ examinedCount' = examinedCount + 1
  /\ \E page \in PageContents :
       /\ mReadoutStream' = printToFile(Head(mQueue), mReadoutCounter, page)
       /\ IF mOptions.checkError
            THEN LET counter == SeedCounter(mDataGeneratorCounter, page)
                     outcome == CheckOutcome(mOptions.generatorPattern, Head(mQueue),
                                             mReadoutCounter, ToWord(counter), page)
                 IN  /\ chkPage' = page
                     /\ chkCounter' = ToWord(counter)
                     /\ chkPattern' = mOptions.generatorPattern
                     /\ chkHandle' = Head(mQueue)
                     /\ chkEvent' = mReadoutCounter
                     /\ chkResult' = outcome.result
                     /\ mErrorCount' = outcome.errorCount
                     /\ mErrorStream' = outcome.stream
                     /\ mDataGeneratorCounter' =
                          ResyncCounter(counter, page, outcome.result = "true")
                     /\ pc' = IF outcome.result = "exception" THEN "failed" ELSE "resetPage"
                     /\ dataEmulatorEnabled' =
                          (dataEmulatorEnabled /\ outcome.result # "exception")
            ELSE /\ UNCHANGED checkVars
                 /\ pc' = "resetPage"
                 /\ UNCHANGED dataEmulatorEnabled
  /\ UNCHANGED <<ringVars, queueVars, optVars, ctlVars, pauseVars, envVars, monVars,
                 mReadoutCounter, ackCount, popCounter, fillVars>>
  /\ UNCHANGED <<stats, cardVars, mFifoAddress, bar, descVars, callVars, threadVars>>

\* readoutPage without the page reset.
ReadoutResetPage_skip ==
  /\ pc = "resetPage"
  /\ pc' = "resetStatus"
  /\ UNCHANGED <<ringVars, queueVars, optVars,
                 ctlVars, pauseVars, envVars, monVars, cntVars, fillVars, dataEmulatorEnabled>>
  /\ UNCHANGED sideVars

\* readoutPage: resetPage(getPageAddress(handle)).
ReadoutResetPage ==
  /\ pc = "resetPage"
  /\ pages' = [pages EXCEPT ![Head(mQueue).pageIndex] = "default"]
  /\ pc' = "resetStatus"
  /\ UNCHANGED <<statusEntries, descriptorEntries, inFlight, queueVars, optVars,
                 ctlVars, pauseVars, envVars, monVars, cntVars, fillVars, dataEmulatorEnabled>>
  /\ UNCHANGED sideVars

\* readoutPage without the status reset.
ReadoutResetStatus_skip ==
  /\ pc = "resetStatus"
  /\ pc' = "count"
  /\ UNCHANGED <<ringVars, queueVars, optVars,
                 ctlVars, pauseVars, envVars, monVars, cntVars, fillVars, dataEmulatorEnabled>>
  /\ UNCHANGED sideVars

\* readoutPage: statusEntries[handle.descriptorIndex].reset().
ReadoutResetStatus ==
  /\ pc = "resetStatus"
  /\ statusEntries' = [statusEntries EXCEPT ![Head(mQueue).descriptorIndex] = FALSE]
  /\ pc' = "count"
  /\ UNCHANGED <<descriptorEntries, pages, inFlight, queueVars, optVars,
                 ctlVars, pauseVars, envVars, monVars, cntVars, fillVars, dataEmulatorEnabled>>
  /\ UNCHANGED sideVars

\* readoutPage without the increment of mReadoutCounter.
ReadoutCount_skip ==
  /\ pc = "count"
  /\ mDataGeneratorCounter' = AddInt64(mDataGeneratorCounter, COUNTER_INCREMENT)
  /\ pc' = "acknowledge"
  /\ UNCHANGED <<ringVars, queueVars, optVars, ctlVars, pauseVars, envVars, monVars,
                 cntVars, fillVars, dataEmulatorEnabled>>
  /\ UNCHANGED <<stats, cardVars, setupVars, descVars, callVars, threadVars, chkPage, chkCounter, chkPattern,
                 chkHandle, chkEvent, chkResult, mErrorCount, mErrorStream>>

\* readoutPage: mDataGeneratorCounter += 256; mReadoutCounter++.
ReadoutCount ==
  /\ pc = "count"
  /\ mDataGeneratorCounter' = AddInt64(mDataGeneratorCounter, COUNTER_INCREMENT)
  /\ mReadoutCounter' = mReadoutCounter + 1
  /\ pc' = "acknowledge"
  /\ UNCHANGED <<ringVars, queueVars, optVars, ctlVars, pauseVars, envVars, monVars,
                 ackCount, examinedCount, popCounter, fillVars, dataEmulatorEnabled>>
  /\ UNCHANGED <<stats, cardVars, setupVars, descVars, callVars, threadVars, chkPage, chkCounter, chkPattern,
                 chkHandle, chkEvent, chkResult, mErrorCount, mErrorStream>>

\* A legacy acknowledgment after the first page of every four.
ackDue_firstOfFour ==
  IF mOptions.legacyAck THEN mReadoutCounter % LEGACY_ACK_INTERVAL = 1 ELSE TRUE

\* runDma: the acknowledgment that is due after readoutPage.
ackDue == IF mOptions.legacyAck THEN mReadoutCounter % LEGACY_ACK_INTERVAL = 0 ELSE TRUE

\* A legacy mode that keeps the page queued until an acknowledgment is due.
Acknowledge_holdsPage ==
  /\ pc = "acknowledge"
  /\ ackCount' = IF ackDue THEN ackCount + 1 ELSE ackCount
  /\ pc' = IF ackDue THEN "pop" ELSE "loopTop"
  /\ UNCHANGED <<ringVars, queueVars, optVars, ctlVars, pauseVars, envVars, monVars,
                 mReadoutCounter, examinedCount, popCounter, fillVars,
                 dataEmulatorEnabled>>
  /\ UNCHANGED sideVars

\* runDma: acknowledgePage() when due: the write of the acknowledge register.
Acknowledge ==
  /\ pc = "acknowledge"
  /\ ackCount' = IF ackDue THEN ackCount + 1 ELSE ackCount
  /\ pc' = "pop"
  /\ UNCHANGED <<ringVars, queueVars, optVars, ctlVars, pauseVars, envVars, monVars,
                 mReadoutCounter, examinedCount, popCounter, fillVars,
                 dataEmulatorEnabled>>
  /\ UNCHANGED sideVars

\* A pop that removes the newest handle.
Pop_newest ==
  /\ pc = "pop"
  /\ mQueue' = SubSeq(mQueue, 1, Len(mQueue) - 1)
  /\ popCounter' = popCounter + 1
  /\ pc' = "loopTop"
  /\ UNCHANGED <<ringVars, mPushCounter, mDescriptorCounter, mPageIndexCounter,
                 optVars, ctlVars, pauseVars, envVars, monVars, mReadoutCounter, ackCount,
                 examinedCount, fillVars, dataEmulatorEnabled>>
  /\ UNCHANGED sideVars

\* runDma: mQueue.pop().
Pop ==
  /\ pc = "pop"
  /\ mQueue' = Tail(mQueue)
  /\ popCounter' = popCounter + 1
  /\ pc' = "loopTop"
  /\ UNCHANGED <<ringVars, mPushCounter, mDescriptorCounter, mPageIndexCounter,
                 optVars, ctlVars, pauseVars, envVars, monVars, mReadoutCounter, ackCount,
                 examinedCount, fillVars, dataEmulatorEnabled>>
  /\ UNCHANGED sideVars

\* runDma returning without the destructor of the guard.
Finish_leaveEnabled ==
  /\ pc = "finish"
  /\ stats' = Append(stats, mReadoutCounter)
  /\ dataEmulatorEnabled' = dataEmulatorEnabled
  /\ pc' = "join"
  /\ UNCHANGED <<ringVars, queueVars, optVars, ctlVars, pauseVars, envVars, monVars, cntVars,
                 fillVars>>
  /\ UNCHANGED <<cardVars, checkVars, setupVars, descVars, callVars, threadVars>>

\* runDma after the loop: outputStats prints the "Pages" line; then
\* ~BufferReadyGuard: setDataEmulatorEnabled(false).
Finish ==
  /\ pc = "finish"
  /\ stats' = Append(stats, mReadoutCounter)
  /\ dataEmulatorEnabled' = FALSE
  /\ pc' = "join"
  /\ UNCHANGED <<ringVars, queueVars, optVars, ctlVars, pauseVars, envVars, monVars, cntVars,
                 fillVars>>
  /\ UNCHANGED <<cardVars, checkVars, setupVars, descVars, callVars, threadVars>>

\* run after runDma: mTemperatureMonitor.join(), mRegisterHammer.join(), then
\* removeDmaBufferFile() with --rm-sharedmem.  A join asks the thread to stop
\* and waits for its end.
Join ==
  /\ pc = "join"
  /\ IF monitor # "exited"
       THEN /\ stopFlag' = TRUE
            /\ UNCHANGED <<pc, hammerStop, bufferFileRemoved>>
       ELSE IF hammer = "running"
         THEN /\ hammerStop' = TRUE
              /\ UNCHANGED <<pc, stopFlag, bufferFileRemoved>>
         ELSE /\ bufferFileRemoved' = mOptions.removeSharedMemory
              /\ pc' = "done"
              /\ UNCHANGED <<stopFlag, hammerStop>>
  /\ UNCHANGED <<ringVars, queueVars, optVars, ctlVars, pauseVars, envVars, mMaxExceeded,
                 mValidFlag, monitor, cntVars, fillVars, dataEmulatorEnabled>>
  /\ UNCHANGED <<stats, cardVars, checkVars, setupVars, descVars, callVars,
                 hammer, hammerReg, hammerTurns, released>>

\* The end of the program: execute() has returned, or has caught the exception
\* of a failed run, and the members are destroyed in the reverse order of
\* their declaration: mBufferPages, mMappedFilePages and mPdaBar before
\* mRegisterHammer and mTemperatureMonitor.
Release ==
  /\ pc \in {"done", "failed"}
  /\ ~released
  /\ released' = TRUE
  /\ UNCHANGED runVars
  /\ UNCHANGED <<stats, cardVars, checkVars, setupVars, descVars, callVars,
                 hammerVars, bufferFileRemoved>>

\* ------------------------------------------------ temperature monitor thread
\* The register read is commented out in the source: the sample is boost::none.
NoTemperature == "none"
SampleTemperature == NoTemperature

\* One turn of the monitor's loop, or its end.
MonitorStep ==
  /\ monitor = "running"
  /\ IF stopFlag \/ sigInt
       THEN /\ monitor' = "exited"
            /\ UNCHANGED <<mValidFlag, mMaxExceeded, hotSampled>>
       ELSE /\ hotSampled' = (hotSampled \/ temperature > MAX_TEMPERATURE)
            /\ IF SampleTemperature = NoTemperature
                 THEN /\ mValidFlag' = FALSE
                      /\ UNCHANGED <<mMaxExceeded, monitor>>
                 ELSE /\ mValidFlag' = TRUE
                      /\ IF SampleTemperature > MAX_TEMPERATURE
                           THEN mMaxExceeded' = TRUE /\ monitor' = "exited"
                           ELSE UNCHANGED <<mMaxExceeded, monitor>>
  /\ UNCHANGED <<pc, ringVars, queueVars, optVars, ctlVars, pauseVars, envVars, stopFlag,
                 cntVars, fillVars, dataEmulatorEnabled>>
  /\ UNCHANGED <<stats, temperature, checkVars, setupVars, descVars, callVars, threadVars>>

\* The monitor's branch for a sample above the maximum: it sets the flags and
\* leaves its loop.  With the register read commented out the build never
\* takes it; SpecThermal adds it, to follow a run whose flag is set.
MonitorMaxExceeded ==
  /\ monitor = "running"
  /\ ~(stopFlag \/ sigInt)
  /\ temperature > MAX_TEMPERATURE
  /\ mValidFlag' = TRUE
  /\ mMaxExceeded' = TRUE
  /\ monitor' = "exited"
  /\ UNCHANGED <<pc, ringVars, queueVars, optVars, ctlVars, pauseVars, envVars, stopFlag,
                 cntVars, fillVars, dataEmulatorEnabled>>
  /\ UNCHANGED sideVars

\* ------------------------------------------- checkErrors, one call
\* checkErrors(chkPattern, chkHandle, chkEvent, chkCounter).
CheckErrors ==
  /\ chkResult = "none"
  /\ LET outcome == CheckOutcome(chkPattern, chkHandle, chkEvent, chkCounter, chkPage)
     IN  /\ chkResult' = outcome.result
         /\ mErrorCount' = outcome.errorCount
         /\ mErrorStream' = outcome.stream
  /\ UNCHANGED <<runVars, stats, cardVars, setupVars, descVars, callVars, threadVars, chkPage, chkCounter,
                 chkPattern, chkHandle, chkEvent, mDataGeneratorCounter>>

\* The words that are tried at the words of the page that vary: the values of
\* the pattern around the counter, and a wrong one.
WordsFor(pattern, counter) ==
  {Word(0, 999)} \cup
    CASE pattern = "Incremental" ->
           {AddWord(counter, k) : k \in 0 .. ((PageWords - 1) \div PATTERN_STRIDE)}
      [] pattern = "Alternating" -> {Word(42405, 42405)}
      [] pattern = "Constant" -> {Word(4660, 22136)}
      [] OTHER -> {}

\* The words of the page that vary: those the data emulator writes, and two
\* others; the rest holds the default value.
VariedWords ==
  {i \in 0 .. (PageWords - 1) : i % PATTERN_STRIDE = 0} \cup {1, PATTERN_STRIDE + 1}

CheckPages(pattern, counter) ==
  {[i \in 0 .. (PageWords - 1) |-> IF i \in VariedWords THEN f[i] ELSE BUFFER_DEFAULT_VALUE] :
     f \in [VariedWords -> WordsFor(pattern, counter)]}

\* The counters that are tried: the one of the example, and the last before
\* the wrap.
CheckCounters == {Word(0, 100), Word(Half - 1, Half - 1)}

\* The lines the errors before this page have left in mErrorStream.
PriorLines(errors, verbose) ==
  IF verbose
    THEN [k \in 1 .. (IF errors < MAX_RECORDED_ERRORS THEN errors
                       ELSE MAX_RECORDED_ERRORS - 1) |->
            [event |-> k - 1, page |-> 0, i |-> 0, exp |-> Word(0, 0),
             val |-> BUFFER_DEFAULT_VALUE]]
    ELSE <<>>

\* A run about to check a page: any pattern, counter and page, after any
\* number of errors up to the recording limit.
InitCheck ==
  /\ InitRun(CheckOptions, {NUM_PAGES + 1})
  /\ chkPattern \in Patterns
  /\ chkCounter \in CheckCounters
  /\ chkPage \in CheckPages(chkPattern, chkCounter)
  /\ chkHandle = Handle(0, 0)
  /\ mErrorCount \in 0 .. MAX_RECORDED_ERRORS
  /\ chkEvent = mErrorCount
  /\ chkResult = "none"
  /\ mErrorStream = PriorLines(mErrorCount, mOptions.verbose)
  /\ mDataGeneratorCounter = FromWord(chkCounter)
  /\ InitDevice({4 * DMA_ALIGNMENT})

\* ------------------------------------------------------------ environment
\* The card serves a pushed descriptor: it writes the page at the descriptor's
\* destination and marks the status entry arrived.  Any pushed descriptor can
\* be served next.
DeviceArrive ==
  /\ dataEmulatorEnabled
  /\ \E d \in inFlight :
       /\ pages' = [pages EXCEPT ![descriptorEntries[d].destination] = "data"]
       /\ statusEntries' = [statusEntries EXCEPT ![d] = TRUE]
       /\ inFlight' = inFlight \ {d}
  /\ UNCHANGED <<pc, descriptorEntries, queueVars, optVars, ctlVars, pauseVars, envVars, monVars,
                 cntVars, fillVars, dataEmulatorEnabled>>
  /\ UNCHANGED sideVars

\* The card heats up over the limit while the monitor runs.
Heat ==
  /\ monitor = "running"
  /\ temperature = CoolTemperature
  /\ temperature' = HotTemperature
  /\ UNCHANGED <<runVars, stats, hotSampled, checkVars, setupVars, descVars, callVars, threadVars>>

\* ---------------------------------------------------- register hammer thread
\* The lambda of RegisterHammer::start captures the parameter "bar" of start()
\* by reference and binds "reg" to bar[DEBUG_READ_WRITE] when the thread
\* starts.  The parameter's lifetime ends when start() returns: the pointer
\* the thread finds is the one that was passed, or what the primary thread has
\* left in that place of its stack since, which can point into the buffer.
HammerTargets == {DebugRegister} \cup {PageWord(p) : p \in DOMAIN pages}

\* The hammer thread binding "reg" to the debug register only.
HammerTargets_barOnly == {DebugRegister}

\* One turn of the hammer's "while" loop (256 writes and reads of "reg"), or
\* its end.
HammerStep ==
  /\ hammer = "running"
  /\ IF hammerStop \/ sigInt
       THEN /\ hammer' = "exited"
            /\ UNCHANGED <<hammerReg, hammerTurns, pages>>
       ELSE /\ hammerTurns < MaxHammerTurns
            /\ hammerTurns' = hammerTurns + 1
            /\ \E reg \in (IF hammerReg = Unbound THEN HammerTargets ELSE {hammerReg}) :
                 /\ hammerReg' = reg
                 /\ pages' = IF reg = DebugRegister THEN pages
                             ELSE [pages EXCEPT ![reg[2]] = "hammered"]
            /\ UNCHANGED hammer
  /\ UNCHANGED <<pc, statusEntries, descriptorEntries, inFlight, queueVars, optVars, ctlVars,
                 pauseVars, envVars, monVars, cntVars, fillVars, dataEmulatorEnabled>>
  /\ UNCHANGED <<stats, cardVars, checkVars, setupVars, descVars, callVars, hammerStop,
                 tearVars>>

\* The signal handler of Program sets the flag.
SigInt ==
  /\ ~sigInt
  /\ pc \notin {"done", "failed"}
  /\ sigInt' = TRUE
  /\ UNCHANGED <<pc, ringVars, queueVars, optVars, ctlVars, pauseVars, now, monVars, cntVars,
                 fillVars, dataEmulatorEnabled>>
  /\ UNCHANGED sideVars

\* A timer of the run is armed: the drain timeout, the display interval or a
\* pause schedule.
TimerArmed ==
  \/ mHandlingSigint
  \/ mOptions.verbose
  \/ mOptions.randomPauseSoft
  \/ mOptions.randomPauseFirm

\* The clock advances.  It is followed only while a timer is armed: the
\* program reads nothing but differences of times.
Tick ==
  /\ now < MaxTime
  /\ TimerArmed
  /\ pc \notin {"done", "failed"}
  /\ now' = now + 1
  /\ UNCHANGED <<pc, ringVars, queueVars, optVars, ctlVars, pauseVars, sigInt, monVars, cntVars,
                 fillVars, dataEmulatorEnabled>>
  /\ UNCHANGED sideVars

Primary ==
  \/ Run \/ InitDma \/ InitCard \/ StartMonitor \/ RunDma
  \/ FillTest \/ PushSetDescriptor \/ PushEnqueue \/ Arm
  \/ LoopTop \/ LowPriorityTasks \/ Poll
  \/ ReadoutExamine \/ ReadoutResetPage \/ ReadoutResetStatus \/ ReadoutCount
  \/ Acknowledge \/ Pop \/ Finish \/ Join \/ Release

Next == Primary \/ MonitorStep \/ DeviceArrive \/ SigInt \/ Tick

Spec == Init /\ [][Next]_vars

\* The run with a card that heats up over the limit.
NextHot == Next \/ Heat

SpecHot == Init /\ [][NextHot]_vars

\* The run with a card that heats up and whose temperature the monitor reads.
NextThermal == NextHot \/ MonitorMaxExceeded

SpecThermal == Init /\ [][NextThermal]_vars

\* The runs in which the loop keeps iterating and the clock advances.  They
\* are the runs without pauses and display, which only delay the loop: the
\* clock that is followed stops at MaxTime.
InitLive ==
  InitRun(LiveOptions, PartitionSizes) /\ InitNoCheck /\ InitDevice({4 * DMA_ALIGNMENT})

SpecLive == InitLive /\ [][Next]_vars /\ WF_vars(Primary) /\ WF_vars(Tick)

\* The same runs with a card that serves every descriptor it was given.
SpecLiveArrive == SpecLive /\ WF_vars(DeviceArrive)

\* The runs with error checking.
InitVerify ==
  InitRun(VerifyOptions, {NUM_PAGES + 1}) /\ InitNoCheck /\ InitDevice({4 * DMA_ALIGNMENT})

SpecVerify == InitVerify /\ [][Next]_vars

\* The verbose runs with error checking.
InitRecord ==
  InitRun(RecordOptions, {NUM_PAGES + 1}) /\ InitNoCheck /\ InitDevice({4 * DMA_ALIGNMENT})

\* They are followed without an interrupt.
NextRecord == Primary \/ MonitorStep \/ DeviceArrive \/ Tick

SpecRecord == InitRecord /\ [][NextRecord]_vars

\* The runs with every setup: any export, any number of pages around the
\* ring size, a table at an aligned or a misaligned address.
InitSetup ==
  /\ InitRun(SetupOptions, PartitionSizes)
  /\ InitNoCheck
  /\ InitDevice(AlignedAddresses \cup MisalignedAddresses)

SpecSetup == InitSetup /\ [][Next]_vars

\* One call of setDescriptor, with any arguments, on the table initFifo has
\* set up.
SetDescriptor ==
  /\ pc = "initCard"
  /\ sdResult = "none"
  /\ \E pageIndex \in PageIndexInputs, descriptorIndex \in Descriptors :
       /\ sdPageIndex' = pageIndex
       /\ sdDescriptorIndex' = descriptorIndex
       /\ IF PageIndexValid(pageIndex, mPageAddresses)
            THEN /\ descriptorEntries' =
                      SetDescriptorEntry(descriptorEntries, pageIndex, descriptorIndex)
                 /\ sdResult' = "done"
            ELSE /\ sdResult' = "exception"
                 /\ UNCHANGED descriptorEntries
  /\ UNCHANGED <<pc, statusEntries, pages, inFlight, queueVars, optVars, ctlVars, pauseVars,
                 envVars, monVars, cntVars, fillVars, dataEmulatorEnabled>>
  /\ UNCHANGED <<stats, cardVars, checkVars, setupVars, callVars, threadVars>>

InitDescriptor ==
  /\ InitRun(CheckOptions, {NUM_PAGES + 1, NUM_PAGES + ExtraPages + 1})
  /\ InitNoCheck
  /\ InitDevice(AlignedAddresses)

NextDescriptor == Run \/ InitDma \/ SetDescriptor

SpecDescriptor == InitDescriptor /\ [][NextDescriptor]_vars

\* ------------------------------------------------------------ resetPage
\* resetPage that leaves the first word of the page.
resetPage_skipFirst(page) ==
  [i \in DOMAIN page |-> IF i = 0 THEN page[i] ELSE BUFFER_DEFAULT_VALUE]

\* resetPage: "for (i < DMA_PAGE_SIZE_32) page[i] = BUFFER_DEFAULT_VALUE".
resetPage(page) == [i \in DOMAIN page |-> BUFFER_DEFAULT_VALUE]

\* One call of resetPage on a page of the buffer.
ResetPageCall ==
  /\ pc = "run"
  /\ rsCalls < MaxResets
  /\ \E p \in MemoryPages :
       /\ pageMemory' = [pageMemory EXCEPT ![p] = resetPage(pageMemory[p])]
       /\ rsIndex' = p
  /\ rsCalls' = rsCalls + 1
  /\ UNCHANGED runVars
  /\ UNCHANGED <<stats, cardVars, checkVars, setupVars, descVars, headerVars, reserveVars, threadVars>>

\* The buffer holds any of the pages the card writes, or reset pages.
InitReset ==
  /\ InitRun(CheckOptions, {NUM_PAGES + 1})
  /\ InitNoCheck
  /\ InitTable({4 * DMA_ALIGNMENT})
  /\ pageMemory \in [MemoryPages -> PageContents \cup {DefaultPage}]
  /\ rsIndex = 0
  /\ rsCalls = 0
  /\ InitNoHeader
  /\ InitNoReserve

NextReset == ResetPageCall

SpecReset == InitReset /\ [][NextReset]_vars

\* ----------------------------------------------------------- DataFormat
\* getWord reading the most significant byte first.
getWord_bigEndian(data, i) ==
  Word(data[(4 * i) + 1] + (256 * data[4 * i]),
       data[(4 * i) + 3] + (256 * data[(4 * i) + 2]))

\* getWord: memcpy of the four bytes at 4 * i into a uint32_t; the byte at the
\* lowest address is the least significant one.
getWord(data, i) ==
  Word(data[(4 * i) + 2] + (256 * data[(4 * i) + 3]),
       data[4 * i] + (256 * data[(4 * i) + 1]))

\* Utilities::getBits(x, lsb, msb): the bits lsb..msb of x, shifted down to
\* bit 0.  The ranges that are used lie in one half of the word.
getBits(x, lsb, msb) ==
  IF msb < 16
    THEN (x[2] \div (2 ^ lsb)) % (2 ^ ((msb - lsb) + 1))
    ELSE (x[1] \div (2 ^ (lsb - 16))) % (2 ^ ((msb - lsb) + 1))

getLinkId(data) == getBits(getWord(data, 3), 0, 7)

getEventSize(data) == getBits(getWord(data, 2), 16, 31)

getPacketCounter(data) == getBits(getWord(data, 3), 8, 15)

\* The three decoders called on the header.
DataFormatCall ==
  /\ pc = "run"
  /\ hdrLinkId = NotComputed
  /\ hdrLinkId' = getLinkId(header)
  /\ hdrEventSize' = getEventSize(header)
  /\ hdrPacketCounter' = getPacketCounter(header)
  /\ UNCHANGED header
  /\ UNCHANGED runVars
  /\ UNCHANGED <<stats, cardVars, checkVars, setupVars, descVars, resetVars, reserveVars, threadVars>>

\* The values of the bytes that are tried.
HeaderBytes == {0, 18, 52, 255}

\* The bytes of the words 2 and 3 that the decoders are said to read.
DecodedBytes == {10, 11, 12, 13}

\* Headers: any bytes in the decoded places, and one value for all the others.
Headers ==
  {[b \in 0 .. (HeaderSize - 1) |-> IF b \in DecodedBytes THEN d[b] ELSE fill] :
     d \in [DecodedBytes -> HeaderBytes], fill \in HeaderBytes}

InitHeader ==
  /\ InitRun(CheckOptions, {NUM_PAGES + 1})
  /\ InitNoCheck
  /\ InitTable({4 * DMA_ALIGNMENT})
  /\ InitNoReset
  /\ header \in Headers
  /\ hdrLinkId = NotComputed
  /\ hdrEventSize = NotComputed
  /\ hdrPacketCounter = NotComputed
  /\ InitNoReserve

NextHeader == DataFormatCall

SpecHeader == InitHeader /\ [][NextHeader]_vars

\* ------------------------------------------------- initFifo: the table's space
\* initFifo reserving the smallest whole number of pages that holds the table.
FifoSpace_roundUp(size) ==
  (((size + DMA_PAGE_SIZE) - 1) \div DMA_PAGE_SIZE) * DMA_PAGE_SIZE

\* initFifo: "((sizeof(CruFifoTable) / DMA_PAGE_SIZE) + 1) * DMA_PAGE_SIZE".
FifoSpace(size) == ((size \div DMA_PAGE_SIZE) + 1) * DMA_PAGE_SIZE

\* initFifo computing the space of a table.
ReserveFifo ==
  /\ pc = "run"
  /\ fifoSpace = NotComputed
  /\ fifoSpace' = FifoSpace(tableSize)
  /\ UNCHANGED tableSize
  /\ UNCHANGED runVars
  /\ UNCHANGED <<stats, cardVars, checkVars, setupVars, descVars, resetVars, headerVars, threadVars>>

\* The table sizes that are tried.
TableSizes == 1 .. ((MaxTablePages * DMA_PAGE_SIZE) + 1)

InitReserve ==
  /\ InitRun(CheckOptions, {NUM_PAGES + 1})
  /\ InitNoCheck
  /\ InitTable({4 * DMA_ALIGNMENT})
  /\ InitNoReset
  /\ InitNoHeader
  /\ tableSize \in TableSizes
  /\ fifoSpace = NotComputed

NextReserve == ReserveFifo

SpecReserve == InitReserve /\ [][NextReserve]_vars

\* The runs whose counters are followed.
InitCount ==
  InitRun(CountOptions, PartitionSizes) /\ InitNoCheck /\ InitDevice({4 * DMA_ALIGNMENT})

SpecCount == InitCount /\ [][Next]_vars

\* The runs with both auxiliary threads, up to the end of the program.
InitThreads ==
  InitRun(ThreadOptions, {NUM_PAGES + 1}) /\ InitNoCheck /\ InitDevice({4 * DMA_ALIGNMENT})

NextThreads == NextThermal \/ HammerStep

SpecThreads == InitThreads /\ [][NextThreads]_vars

\* The runs with the FIFO display.
InitDisplay ==
  InitRun(DisplayOptions, PartitionSizes) /\ InitNoCheck /\ InitDevice({4 * DMA_ALIGNMENT})

SpecDisplay == InitDisplay /\ [][Next]_vars

\* One call of checkErrors.
NextCheck == CheckErrors

SpecCheck == InitCheck /\ [][NextCheck]_vars

\* ================================================================ claims
\* The front handle's status entry shows arrived.
FrontArrived ==
  /\ mQueue # <<>>
  /\ statusEntries[Head(mQueue).descriptorIndex] = TRUE

\* The positions of the primary thread inside one page's readout.
ReadingOut == pc \in {"readoutPage", "resetPage", "resetStatus", "count",
                      "acknowledge", "pop"}

\* The handle of the n-th push of a run.
NthHandle(n) == Handle(n % NUM_PAGES, n % mPageAddresses)

\* C1: the queue never holds more than NUM_PAGES handles, and no push has
\* overwritten a handle that was still in the circular buffer: every handle
\* pushed and not popped is in the queue.
C1_QueueWithinRing ==
  /\ Len(mQueue) <= NUM_PAGES
  /\ Len(mQueue) = mPushCounter - popCounter

\* C1 witness: the queue is full again after the descriptor ring has wrapped.
C1_Witness ==
  /\ Len(mQueue) = NUM_PAGES
  /\ mPushCounter > NUM_PAGES

\* C2: pages leave in push order: the queue holds exactly the handles of the
\* pushes number popCounter .. mPushCounter - 1, in that order, so the k-th pop
\* removes the k-th handle pushed and the page being read out is the oldest
\* one not yet popped, whatever the order of the arrivals.
C2_PushOrder ==
  /\ Len(mQueue) = mPushCounter - popCounter
  /\ \A i \in 1 .. Len(mQueue) : mQueue[i] = NthHandle(popCounter + i - 1)
  /\ popCounter <= mReadoutCounter
  /\ mReadoutCounter <= popCounter + 1

\* C2 witness: pages have been popped, and the second handle's entry has
\* arrived before the front handle's.
C2_Witness ==
  /\ popCounter >= 1
  /\ Len(mQueue) >= 2
  /\ statusEntries[mQueue[2].descriptorIndex]
  /\ ~statusEntries[mQueue[1].descriptorIndex]

\* C3: a readout starts only from the availability test, with the queue
\* non-empty and the front handle's entry arrived; when the test fails the
\* iteration goes back to the loop top and reads out, clears, acknowledges and
\* pops nothing.  Counters, queue and status entries change by the primary
\* thread only inside a readout.
C3_ReadoutOnlyWhenArrived ==
  [][ /\ (pc = "poll" /\ pc' # pc) =>
            IF FrontArrived
              THEN pc' = "readoutPage"
              ELSE /\ pc' = "loopTop"
                   /\ UNCHANGED <<mQueue, cntVars, ringVars>>
      /\ (pc' = "readoutPage" /\ pc # pc') => (pc = "poll" /\ FrontArrived)
      /\ (pc' \in {"resetPage", "resetStatus"} \/ pc \in {"resetPage", "resetStatus"})
            => FrontArrived
      /\ ( \/ cntVars' # cntVars
           \/ Len(mQueue') < Len(mQueue)
           \/ \E d \in Descriptors : statusEntries[d] /\ ~statusEntries'[d] /\ pc # "initDma" )
            => (ReadingOut /\ mQueue # <<>>)
    ]_vars

\* C3 witness: after a page has been read out, an availability test finds the
\* front handle's entry not arrived.
C3_Witness ==
  /\ pc = "poll"
  /\ popCounter >= 1
  /\ mQueue # <<>>
  /\ ~FrontArrived

\* C4: once run() has set the mode, shouldPushQueue is true exactly when the
\* queue is shorter than the ring, the limit is <= 0 or not yet reached by
\* pushCounter, and pushEnabled holds; evaluating it changes nothing but the
\* position of the primary thread.
C4_ShouldPush ==
  /\ [](pc # "run" =>
          (shouldPushQueue <=>
             /\ Len(mQueue) < NUM_PAGES
             /\ (mOptions.maxPages <= 0 \/ mPushCounter < mOptions.maxPages)
             /\ mPushEnabled))
  /\ [][ (pc = "fill" /\ pc' = "pushPage") =>
           UNCHANGED <<ringVars, queueVars, optVars, ctlVars, pauseVars, cntVars,
                       fillVars, dataEmulatorEnabled>> ]_vars

\* C4 witness: with a finite limit reached, the test fails although the queue
\* has room and pushing is enabled.
C4_Witness ==
  /\ pc = "fill"
  /\ Len(mQueue) < NUM_PAGES
  /\ mPushEnabled
  /\ mOptions.maxPages > 0
  /\ mPushCounter >= mOptions.maxPages
  /\ ~shouldPushQueue

\* C5: the n-th push appends the handle {n mod NUM_PAGES, n mod P} to the queue
\* and adds exactly 1 to pushCounter; when the handle is enqueued, the
\* descriptor of slot n mod NUM_PAGES has already been written with the page
\* n mod P as destination.
C5_NthPush ==
  [][ (mPushCounter' # mPushCounter \/ Len(mQueue') > Len(mQueue)) =>
        /\ mPushCounter' = mPushCounter + 1
        /\ mQueue' = Append(mQueue, NthHandle(mPushCounter))
        /\ descriptorEntries[mPushCounter % NUM_PAGES] =
             [length |-> DMA_PAGE_SIZE_32,
              source |-> ((mPushCounter % NUM_PAGES) % NUM_OF_BUFFERS) * DMA_PAGE_SIZE,
              destination |-> mPushCounter % mPageAddresses]
        /\ descriptorEntries' = descriptorEntries
    ]_vars

\* C5 witness: more pages have been pushed than were partitioned, so both the
\* descriptor index and the page index have wrapped.
C5_Witness ==
  /\ mPageAddresses > NUM_PAGES
  /\ mPushCounter > mPageAddresses

\* C6: when pushPage is about to write a descriptor slot, no handle of the
\* queue has that descriptorIndex and the slot's status entry is not-arrived;
\* and a status entry is reset only after the page of its slot has been
\* examined and before that slot is pushed again.
C6_SlotReuse ==
  /\ pc = "pushPage" =>
       /\ \A i \in 1 .. Len(mQueue) : mQueue[i].descriptorIndex # mDescriptorCounter
       /\ ~statusEntries[mDescriptorCounter]
       /\ mDescriptorCounter \notin inFlight
  /\ pc = "resetStatus" =>
       /\ examinedCount = popCounter + 1
       /\ Head(mQueue).descriptorIndex \notin inFlight
       /\ \A i \in 2 .. Len(mQueue) :
            mQueue[i].descriptorIndex # Head(mQueue).descriptorIndex

\* C6 witness: a push reuses a descriptor slot.
C6_Witness ==
  /\ pc = "pushPage"
  /\ mPushCounter >= NUM_PAGES

\* C7: no two handles of the queue have the same pageIndex or the same
\* descriptorIndex, and no page is the destination of two descriptors the card
\* still has to serve.
C7_DistinctBindings ==
  /\ \A i, j \in 1 .. Len(mQueue) :
       i # j => /\ mQueue[i].pageIndex # mQueue[j].pageIndex
                /\ mQueue[i].descriptorIndex # mQueue[j].descriptorIndex
  /\ \A d, e \in inFlight :
       d # e => descriptorEntries[d].destination # descriptorEntries[e].destination

\* C7 witness: the queue is full after the page index has wrapped.
C7_Witness ==
  /\ Len(mQueue) = NUM_PAGES
  /\ mPushCounter > mPageAddresses
  /\ mPageAddresses > NUM_PAGES

\* The acknowledgments sent once the page number k (from 1) is acknowledged.
AcksAfter(k) == IF mOptions.legacyAck THEN k \div LEGACY_ACK_INTERVAL ELSE k

\* C8: per page, examine, then reset the page, then clear the status entry,
\* then acknowledge when due, then pop: the page is reset only after it was
\* examined, the status entry is cleared only after the page is reset, an
\* acknowledgment is sent only after the status entry is cleared and before
\* the pop, and the pop comes after the acknowledgment that was due.
C8_ReadoutOrder ==
  [][ pc # "initDma" =>
      /\ (mQueue # <<>> /\ pages'[Head(mQueue).pageIndex] # pages[Head(mQueue).pageIndex]
            /\ pages'[Head(mQueue).pageIndex] = "default") =>
           /\ examinedCount = popCounter + 1
           /\ statusEntries[Head(mQueue).descriptorIndex]
      /\ (\E d \in Descriptors : statusEntries[d] /\ ~statusEntries'[d]) =>
           /\ mQueue # <<>>
           /\ statusEntries[Head(mQueue).descriptorIndex]
           /\ ~statusEntries'[Head(mQueue).descriptorIndex]
           /\ pages[Head(mQueue).pageIndex] = "default"
           /\ examinedCount = popCounter + 1
      /\ ackCount' # ackCount =>
           /\ mQueue # <<>>
           /\ mQueue' = mQueue
           /\ ~statusEntries[Head(mQueue).descriptorIndex]
           /\ pages[Head(mQueue).pageIndex] = "default"
           /\ ackCount' = AcksAfter(popCounter + 1)
      /\ popCounter' # popCounter =>
           /\ ~statusEntries[Head(mQueue).descriptorIndex]
           /\ pages[Head(mQueue).pageIndex] = "default"
           /\ examinedCount = popCounter + 1
           /\ ackCount = AcksAfter(popCounter + 1)
    ]_vars

\* C8 witness: a page has gone through all the steps, acknowledgment included.
C8_Witness ==
  /\ pc = "loopTop"
  /\ popCounter >= 1
  /\ ackCount >= 1

\* C9 as stated: while the acknowledgment decision is taken and while the
\* handle is still in the queue, readoutCounter does not count the page.
C9_CounterLast ==
  ReadingOut => mReadoutCounter = popCounter

\* C9 as amended: readoutCounter is incremented at the end of readoutPage,
\* after the status entry is cleared and before the acknowledgment decision
\* and the pop: at the decision and at the pop it already counts the page.
C9_CounterBeforeAck ==
  /\ pc \in {"readoutPage", "resetPage", "resetStatus", "count"} =>
       mReadoutCounter = popCounter
  /\ pc \in {"acknowledge", "pop"} =>
       /\ mReadoutCounter = popCounter + 1
       /\ mQueue # <<>>
       /\ ~statusEntries[Head(mQueue).descriptorIndex]
  /\ ~ReadingOut => mReadoutCounter = popCounter

\* C9 witness: the acknowledgment decision of a page whose handle is queued.
C9_Witness ==
  /\ pc = "acknowledge"
  /\ mReadoutCounter >= 2

\* C10: from the first low-priority check that observes the interrupt flag,
\* pushEnabled is false and stays false, nothing is pushed and pushCounter
\* does not change, the queue only shrinks, and the drain start, recorded at
\* that check, is never changed.
C10_DrainStopsPushing ==
  /\ [](mHandlingSigint => (sigInt /\ ~mPushEnabled))
  /\ [][ /\ mHandlingSigint =>
              /\ mHandlingSigint'
              /\ ~mPushEnabled'
              /\ mPushCounter' = mPushCounter
              /\ mHandlingSigintStart' = mHandlingSigintStart
              /\ (mQueue' = mQueue \/ mQueue' = Tail(mQueue))
              /\ descriptorEntries' = descriptorEntries
         /\ (~mHandlingSigint /\ mHandlingSigint') =>
              /\ pc = "lowPriority"
              /\ mHandlingSigintStart' = now
         /\ (pc = "lowPriority" /\ pc' # pc /\ sigInt /\ ~mMaxExceeded
               /\ mLowPriorityCounter >= LOW_PRIORITY_INTERVAL) => mHandlingSigint'
       ]_vars

\* C10 witness: a page is read out during the drain.
C10_Witness ==
  /\ mHandlingSigint
  /\ pc = "pop"
  /\ mPushCounter >= 1

\* ------------------------------------------------------------ C11 .. C20
\* A low-priority check that runs the body of lowPriorityTasks.
LowPriorityCheck ==
  /\ pc = "lowPriority"
  /\ pc' # pc
  /\ mLowPriorityCounter >= LOW_PRIORITY_INTERVAL

\* The primary thread has left the readout loop.
LoopExited == pc \in {"finish", "join", "done"}

\* The run was cut at the MaxPush bound.
PushBound == pc = "pushPage" /\ mPushCounter >= MaxPush

\* C11: at a low-priority check of an interrupted run, the loop-break flag is
\* set exactly when the queue is empty or more than HANDLING_SIGINT_TIMEOUT
\* has passed since the drain start; the flag is set by the interrupt at no
\* other place, and no check follows the one that set it.
C11_DrainBreak ==
  /\ [](mDmaLoopBreak => pc # "lowPriority")
  /\ [][ /\ (LowPriorityCheck /\ sigInt /\ ~mMaxExceeded) =>
              (mDmaLoopBreak' <=>
                 \/ Len(mQueue) = 0
                 \/ (now - mHandlingSigintStart') > HANDLING_SIGINT_TIMEOUT)
         /\ (~mDmaLoopBreak /\ mDmaLoopBreak' /\ ~mMaxExceeded) =>
              /\ LowPriorityCheck
              /\ sigInt
              /\ mHandlingSigint'
              /\ \/ Len(mQueue) = 0
                 \/ (now - mHandlingSigintStart') > HANDLING_SIGINT_TIMEOUT
       ]_vars

\* C11 witness: the drain has ended by the timeout, with pages still queued
\* and after a page was read out.
C11_Witness ==
  /\ mDmaLoopBreak
  /\ mQueue # <<>>
  /\ mHandlingSigint
  /\ popCounter >= 1
  /\ (now - mHandlingSigintStart) > HANDLING_SIGINT_TIMEOUT

\* C12: "Interrupted" is printed only at a check with the queue empty, the
\* incomplete-drain message only at a check with the queue non-empty and the
\* timeout passed; a run prints at most one of the two, and an interrupt that
\* sets the loop-break flag prints one.
C12_DistinctOutcomes ==
  /\ [](~({"Interrupted", "Interrupted (did not finish readout queue)"} \subseteq printed))
  /\ []((mDmaLoopBreak /\ ~mMaxExceeded) =>
          (\/ "Interrupted" \in printed
           \/ "Interrupted (did not finish readout queue)" \in printed))
  /\ [][ /\ ("Interrupted" \notin printed /\ "Interrupted" \in printed') =>
              /\ LowPriorityCheck
              /\ sigInt
              /\ Len(mQueue) = 0
         /\ ( /\ "Interrupted (did not finish readout queue)" \notin printed
              /\ "Interrupted (did not finish readout queue)" \in printed' ) =>
              /\ LowPriorityCheck
              /\ sigInt
              /\ Len(mQueue) > 0
              /\ (now - mHandlingSigintStart') > HANDLING_SIGINT_TIMEOUT
       ]_vars

\* C12 witness: a drain that emptied the queue has reported the clean outcome.
C12_Witness ==
  /\ "Interrupted" \in printed
  /\ mHandlingSigint
  /\ mQueue = <<>>
  /\ popCounter >= 1
  /\ mPushCounter = popCounter

\* C13: a drain that has started ends with the loop left, whatever the card
\* does; an interrupt raised while the loop runs starts the drain at a
\* low-priority check (or the loop ends before); the loop is left only from
\* its top, so a page whose readout has begun is reset, counted, acknowledged
\* and popped first.
C13_InterruptTerminates ==
  /\ (mHandlingSigint ~> LoopExited)
  /\ ((sigInt /\ dataEmulatorEnabled) ~> (mHandlingSigint \/ LoopExited \/ PushBound))
  /\ [][ /\ (pc' = "finish" /\ pc # "finish") => pc = "loopTop"
         /\ (mHandlingSigint' /\ ~mHandlingSigint) => (LowPriorityCheck /\ sigInt)
         /\ (pc = "readoutPage" /\ pc' # pc) => pc' = "resetPage"
         /\ (pc = "resetPage" /\ pc' # pc) => pc' = "resetStatus"
         /\ (pc = "resetStatus" /\ pc' # pc) => pc' = "count"
         /\ (pc = "count" /\ pc' # pc) => pc' = "acknowledge"
         /\ (pc = "acknowledge" /\ pc' # pc) => pc' = "pop"
         /\ (pc = "pop" /\ pc' # pc) => pc' = "loopTop"
       ]_vars

\* C13 witness: the loop was left by the drain although no page of the queue
\* has arrived.
C13_Witness ==
  /\ LoopExited
  /\ mHandlingSigint
  /\ mQueue # <<>>
  /\ \A i \in 1 .. Len(mQueue) : ~statusEntries[mQueue[i].descriptorIndex]
  /\ popCounter = 0

\* C14: with a limit N >= 1 the loop top at which readoutCounter >= N leaves
\* the loop by the page-limit stop, and there readoutCounter = N,
\* pushCounter = N and the queue is empty; no loop top with readoutCounter < N
\* takes the stop, the counters never pass N, and with a limit <= 0 the stop
\* is never taken.
C14_PageLimitStop ==
  /\ [](mOptions.maxPages <= 0 => "Maximum amount of pages reached" \notin printed)
  /\ [](mOptions.maxPages >= 1 =>
          /\ mReadoutCounter <= mOptions.maxPages
          /\ mPushCounter <= mOptions.maxPages)
  /\ [][ /\ ( /\ pc = "loopTop"
              /\ pc' # pc
              /\ mOptions.maxPages >= 1
              /\ mReadoutCounter >= mOptions.maxPages ) =>
              /\ pc' = "finish"
              /\ "Maximum amount of pages reached" \in printed'
              /\ mReadoutCounter = mOptions.maxPages
              /\ mPushCounter = mOptions.maxPages
              /\ mQueue = <<>>
         /\ ( /\ "Maximum amount of pages reached" \notin printed
              /\ "Maximum amount of pages reached" \in printed' ) =>
              /\ pc = "loopTop"
              /\ mOptions.maxPages >= 1
              /\ mReadoutCounter >= mOptions.maxPages
       ]_vars

\* C14 witness: the page-limit stop of a run whose limit is over the ring size.
C14_Witness ==
  /\ "Maximum amount of pages reached" \in printed
  /\ mOptions.maxPages > NUM_PAGES
  /\ pc = "finish"

\* The run ended by the page-limit stop alone.
LimitStop ==
  /\ LoopExited
  /\ printed = {"Maximum amount of pages reached"}
  /\ ~mDmaLoopBreak
  /\ ~mHandlingSigint
  /\ mPushCounter = mOptions.maxPages
  /\ mReadoutCounter = mOptions.maxPages
  /\ mQueue = <<>>

\* C15: with a limit N >= 1 and a card that serves every pushed page, a run
\* whose loop has started and that is not interrupted comes to the page-limit
\* stop with pushCounter = N, readoutCounter = N and the queue empty, the
\* loop-break flag unset and no drain started.
C15_LimitTerminates ==
  (pc = "loopTop" /\ mOptions.maxPages >= 1) ~> (sigInt \/ LimitStop)

\* C15 witness: an uninterrupted run with a limit over the ring size is done.
C15_Witness ==
  /\ pc = "done"
  /\ ~sigInt
  /\ LimitStop
  /\ mOptions.maxPages > NUM_PAGES

\* C16: a low-priority check that finds the over-temperature flag set sets
\* the loop-break flag, whatever the queue, the interrupt flag and the clock,
\* and starts no drain; the next loop top leaves the loop; the statistics
\* are then printed once, with the number of pages read out.
C16_ThermalAbort ==
  /\ [](LoopExited /\ pc # "finish" => stats = <<popCounter>>)
  /\ [][ /\ (LowPriorityCheck /\ mMaxExceeded) =>
              /\ mDmaLoopBreak'
              /\ "ABORTING: MAX TEMPERATURE EXCEEDED" \in printed'
              /\ printed' \ printed \subseteq {"ABORTING: MAX TEMPERATURE EXCEEDED"}
              /\ UNCHANGED <<mPushEnabled, mHandlingSigint, mHandlingSigintStart>>
         /\ (pc = "loopTop" /\ pc' # pc /\ mDmaLoopBreak) => pc' = "finish"
         /\ (pc = "finish" /\ pc' # pc) =>
              /\ stats' = <<mReadoutCounter>>
              /\ mReadoutCounter = popCounter
       ]_vars

\* C16 witness: a run aborted for temperature, with an interrupt pending and
\* pages still queued, has printed the statistics of the pages it read.
C16_Witness ==
  /\ pc = "done"
  /\ "ABORTING: MAX TEMPERATURE EXCEEDED" \in printed
  /\ sigInt
  /\ ~mHandlingSigint
  /\ mQueue # <<>>
  /\ popCounter >= 1
  /\ stats = <<popCounter>>

\* C17 as stated: once the monitor has done a loop turn on a card over the
\* limit, the validity flag and the max-exceeded flag are set.
C17_MonitorSetsFlags ==
  hotSampled => (mValidFlag /\ mMaxExceeded)

\* The number of acknowledgments due after k readouts.
AcksDue(k) == IF mOptions.legacyAck THEN k \div LEGACY_ACK_INTERVAL ELSE k

\* C18: the acknowledgments sent are k in per-page mode and floor(k/4) in
\* legacy mode, k being the pages whose readout and acknowledgment decision
\* are done; an acknowledgment is sent only at the decision of a page, one at
\* a time, and in legacy mode only after a readout whose number is a
\* multiple of 4.
C18_AckCount ==
  /\ [](ackCount =
          AcksDue(IF pc = "acknowledge" THEN mReadoutCounter - 1 ELSE mReadoutCounter))
  /\ [][ ackCount' # ackCount =>
           /\ pc = "acknowledge"
           /\ ackCount' = ackCount + 1
           /\ mReadoutCounter' = mReadoutCounter
           /\ mOptions.legacyAck => mReadoutCounter % 4 = 0
       ]_vars

\* C18 witness: in legacy mode, one acknowledgment after five readouts.
C18_Witness ==
  /\ mOptions.legacyAck
  /\ pc = "loopTop"
  /\ mReadoutCounter = LEGACY_ACK_INTERVAL + 1
  /\ ackCount = 1

\* The acknowledgments the other mode has sent after the same readouts.
OtherModeAcks ==
  LET k == IF pc = "pop" THEN popCounter + 1 ELSE popCounter
  IN  IF mOptions.legacyAck THEN k ELSE k \div LEGACY_ACK_INTERVAL

\* C19: the run of one mode is a run of the other mode once the count of
\* acknowledgments is replaced: the acknowledgment decision changes nothing
\* but that count and goes on to the pop whether or not an acknowledgment is
\* sent, the step is the step the other mode takes there with its own
\* decision, and no other step reads or changes the count or the mode.
C19_AckModeBlind ==
  [][ /\ mOptions' = mOptions
      /\ IF pc = "acknowledge" /\ pc' # pc
           THEN /\ pc' = "pop"
                /\ UNCHANGED <<ringVars, queueVars, ctlVars, pauseVars, fillVars,
                               mReadoutCounter, examinedCount, popCounter,
                               dataEmulatorEnabled, stats>>
                /\ ackCount' \in {ackCount, ackCount + 1}
                /\ OtherModeAcks' =
                     IF mOptions.legacyAck \/ mReadoutCounter % LEGACY_ACK_INTERVAL = 0
                       THEN OtherModeAcks + 1
                       ELSE OtherModeAcks
           ELSE /\ ackCount' = ackCount
                /\ OtherModeAcks' = OtherModeAcks
    ]_vars

\* C19 witness: in legacy mode a page was popped without an acknowledgment,
\* and the ring has wrapped.
C19_Witness ==
  /\ mOptions.legacyAck
  /\ popCounter > ackCount * LEGACY_ACK_INTERVAL
  /\ mPushCounter > NUM_PAGES
  /\ ackCount >= 1

\* The words checkErrors compares for the incremental pattern.
ComparedWords == {i \in 0 .. (PageWords - 1) : i % 8 = 0}

\* (c + i/8) mod 2^32, on the halves of c.
IncrementalAt(c, i) ==
  LET sum == c[2] + (i \div 8)
  IN  <<(c[1] + (sum \div 65536)) % 65536, sum % 65536>>

\* C20: for the incremental pattern checkErrors returns false and leaves
\* errorCount and the error stream alone iff every word at an offset
\* 0, 8, 16, ... of the page equals (c + i/8) mod 2^32, whatever the other
\* words hold; otherwise it returns true and adds exactly 1 to errorCount, and
\* the line it writes, if it writes one, names the first mismatching offset
\* with the expected and the actual value.
C20_Incremental ==
  [][ (chkPattern = "Incremental" /\ chkResult = "none" /\ chkResult' # "none") =>
        LET bad == {i \in ComparedWords : chkPage[i] # IncrementalAt(chkCounter, i)}
            first == CHOOSE i \in bad : \A j \in bad : i <= j
        IN  IF bad = {}
              THEN /\ chkResult' = "false"
                   /\ mErrorCount' = mErrorCount
                   /\ mErrorStream' = mErrorStream
              ELSE /\ chkResult' = "true"
                   /\ mErrorCount' = mErrorCount + 1
                   /\ \/ mErrorStream' = mErrorStream
                      \/ mErrorStream' =
                           Append(mErrorStream,
                                  [event |-> chkEvent, page |-> chkHandle.pageIndex,
                                   i |-> first, exp |-> IncrementalAt(chkCounter, first),
                                   val |-> chkPage[first]])
    ]_vars

\* C20 witness: the example: counter 100, word 0 = 100, word 8 = 999 gives one
\* error with expected 101 and actual 999 at offset 8, although word 16 and
\* the words 1 and 9 are wrong too.
C20_Witness ==
  /\ chkPattern = "Incremental"
  /\ chkCounter = <<0, 100>>
  /\ chkPage[0] = <<0, 100>>
  /\ chkPage[8] = <<0, 999>>
  /\ chkPage[16] = <<0, 999>>
  /\ chkPage[1] = <<0, 999>>
  /\ chkResult = "true"
  /\ mErrorCount = 1
  /\ mErrorStream = << [event |-> 0, page |-> 0, i |-> 8, exp |-> <<0, 101>>,
                        val |-> <<0, 999>>] >>

\* The step of readoutPage that exports and validates the front page.
Validation == pc = "readoutPage" /\ pc' # pc

\* C21: with checking enabled the counter is seeded exactly once: the first
\* page read out is validated against its own word 0, which therefore is not
\* a mismatch of the incremental pattern, and every later page is validated
\* against the counter that was carried, whatever its word 0 holds.
C21_SeededOnce ==
  [][ (Validation /\ mOptions.checkError) =>
        IF examinedCount = 0
          THEN /\ mDataGeneratorCounter = NotSeeded
               /\ chkCounter' = chkPage'[0]
               /\ (chkPattern' = "Incremental" /\ chkResult' = "true") =>
                    \E i \in ComparedWords \ {0} :
                       chkPage'[i] # IncrementalAt(chkPage'[0], i)
          ELSE /\ mDataGeneratorCounter # NotSeeded
               /\ chkCounter' = ToWord(mDataGeneratorCounter)
    ]_vars

\* C21 witness: a later page was validated against a carried counter that is
\* not its word 0.
C21_Witness ==
  /\ mOptions.checkError
  /\ mOptions.generatorPattern = "Incremental"
  /\ examinedCount >= 2
  /\ chkCounter # chkPage[0]
  /\ chkResult = "true"

\* The page continues the sequence the previous page was observed to have.
Continues(previous, page) ==
  \A i \in ComparedWords :
     page[i] = IncrementalAt(AddWord(previous[0], 256), i)

\* C22: the counter a page after the first is validated against is, after a
\* mismatch with --resync-counter, word 0 of the failing page plus 256, so
\* that a page continuing the observed sequence is not an error; after a
\* mismatch without it, and after a page without error, it is the counter
\* the previous page was validated against plus 256.
C22_NextCounter ==
  [][ (Validation /\ mOptions.checkError /\ examinedCount > 0) =>
        /\ chkCounter' =
             AddWord(IF chkResult = "true" /\ mOptions.resyncCounter
                       THEN chkPage[0] ELSE chkCounter, 256)
        /\ (/\ chkResult = "true"
            /\ mOptions.resyncCounter
            /\ mOptions.generatorPattern = "Incremental"
            /\ Continues(chkPage, chkPage')) => chkResult' = "false"
    ]_vars

\* C22 witness: with resync, the third page continues the second, which was
\* a mismatch that did not continue the first, and is not an error.
C22_Witness ==
  /\ mOptions.checkError
  /\ mOptions.resyncCounter
  /\ mOptions.generatorPattern = "Incremental"
  /\ examinedCount = 3
  /\ mErrorCount = 1
  /\ chkResult = "false"
  /\ chkPage[0] = Word(0, 356)
  /\ chkCounter = Word(0, 356)

\* No page is being read out.
BetweenReadouts == pc \notin {"resetPage", "resetStatus", "count", "acknowledge", "pop"}

\* C23: a mismatch adds one to errorCount and is not fatal: the validation
\* goes on to the page reset whatever it found and changes neither the
\* loop-break flag nor pushEnabled nor the queue; the failing page is then
\* reset, its status entry is cleared, it is counted, acknowledged as its
\* number demands and popped, so that between readouts every validated page
\* is counted and popped.
C23_MismatchNotFatal ==
  /\ [][ (Validation /\ mOptions.checkError) =>
           /\ mErrorCount' = mErrorCount + (IF chkResult' = "true" THEN 1 ELSE 0)
           /\ chkResult' \in {"true", "false"}
           /\ pc' = "resetPage"
           /\ UNCHANGED <<mDmaLoopBreak, mPushEnabled, mQueue, mReadoutCounter, ackCount,
                          popCounter, statusEntries, pages>>
       ]_vars
  /\ [](pc = "resetStatus" => pages[Head(mQueue).pageIndex] = "default")
  /\ [](pc \in {"count", "acknowledge", "pop"} =>
          ~statusEntries[Head(mQueue).descriptorIndex])
  /\ [](pc = "pop" => ackCount = AcksDue(mReadoutCounter))
  /\ [](BetweenReadouts =>
          /\ mReadoutCounter = examinedCount
          /\ popCounter = examinedCount
          /\ ackCount = AcksDue(examinedCount)
          /\ mErrorCount <= examinedCount)

\* C23 witness: a run in which every page was a mismatch has read out its
\* three pages and stopped at the page limit.
C23_Witness ==
  /\ pc = "done"
  /\ mOptions.checkError
  /\ mErrorCount = 3
  /\ mReadoutCounter = 3
  /\ popCounter = 3
  /\ "Maximum amount of pages reached" \in printed
  /\ ~mDmaLoopBreak
  /\ mPushEnabled

\* The step that is the call of checkErrors.
CheckCall == chkResult = "none" /\ chkResult' # "none"

\* C24: checkErrors fails iff the pattern is not incremental, alternating or
\* constant; for these three it returns whether the page has an error, and
\* when it fails it has changed neither errorCount nor the recorded lines.
C24_UnknownPattern ==
  [][ CheckCall =>
        IF chkPattern \in {"Incremental", "Alternating", "Constant"}
          THEN chkResult' \in {"true", "false"}
          ELSE /\ chkResult' = "exception"
               /\ mErrorCount' = mErrorCount
               /\ mErrorStream' = mErrorStream
    ]_vars

\* C24 witness: the call has failed on an unrecognized pattern, after errors
\* were counted and a line recorded.
C24_Witness ==
  /\ chkPattern = "Unknown"
  /\ chkResult = "exception"
  /\ mErrorCount >= 1
  /\ mErrorStream # <<>>

\* C25: the recorded lines never exceed MAX_RECORDED_ERRORS, and a mismatch
\* found when errorCount has reached that bound is still counted, without a
\* line.
C25_RecordedLines ==
  /\ [](Len(mErrorStream) <= MAX_RECORDED_ERRORS)
  /\ [][ (Validation /\ chkResult' = "true") =>
           /\ mErrorCount' = mErrorCount + 1
           /\ mErrorCount + 1 >= MAX_RECORDED_ERRORS => mErrorStream' = mErrorStream
       ]_vars

\* C25 witness: more mismatching pages than the bound are counted, and lines
\* were recorded.
C25_Witness ==
  /\ mErrorCount > MAX_RECORDED_ERRORS
  /\ mErrorCount = examinedCount
  /\ mErrorStream # <<>>

\* The readout loop has not started, nor an auxiliary thread, and the card
\* was not armed.
NothingStarted ==
  /\ monitor = "notStarted"
  /\ ~dataEmulatorEnabled
  /\ mQueue = <<>>
  /\ mPushCounter = 0
  /\ examinedCount = 0
  /\ mReadoutCounter = 0

\* C26: with both the text and the binary export selected, run fails before
\* anything else: no export file is opened, the buffer is not partitioned,
\* the table and the pages are left as they were, no register is written, the
\* monitor is not started and the loop does not run.
C26_BothSinks ==
  /\ []((mOptions.fileOutputAscii /\ mOptions.fileOutputBin) =>
          /\ pc \in {"run", "failed"}
          /\ mReadoutStream.open = "closed"
          /\ mPageAddresses = 0
          /\ \A d \in Descriptors : descriptorEntries[d] = Garbage
          /\ bar = NoRegisters
          /\ NothingStarted)
  /\ [][ (mOptions.fileOutputAscii /\ mOptions.fileOutputBin) =>
           UNCHANGED <<statusEntries, descriptorEntries, pages, bar, mReadoutStream>>
       ]_vars
  /\ [][ (pc = "run" /\ pc' = "failed") =>
           (mOptions.fileOutputAscii /\ mOptions.fileOutputBin) ]_vars

\* C26 witness: the run with both exports has failed.
C26_Witness ==
  /\ mOptions.fileOutputAscii
  /\ mOptions.fileOutputBin
  /\ pc = "failed"

\* The step that is initFifo and the rest of initDma before initCard.
InitFifoStep == pc = "initDma" /\ pc' # pc

\* C27: initFifo fails iff the partitioned pages are no more than the ring
\* has entries; when it fails no status entry was reset, no descriptor was
\* written, no register of the card was written, and the loop never starts.
C27_InsufficientPages ==
  /\ [][ InitFifoStep =>
           /\ (pc' = "failed") <=> (mPageAddresses' <= NUM_PAGES)
           /\ mPageAddresses' = sgPages
           /\ pc' = "failed" =>
                UNCHANGED <<statusEntries, descriptorEntries, pages, bar>>
       ]_vars
  /\ []((pc = "failed" /\ mPageAddresses # 0 /\ mPageAddresses <= NUM_PAGES) =>
          /\ \A d \in Descriptors : descriptorEntries[d] = Garbage
          /\ bar = NoRegisters
          /\ NothingStarted)
  /\ [][ (pc = "failed") => (pc' = "failed") ]_vars

\* C27 witness: initFifo has failed with as many pages as the ring has
\* entries, and the status entries that were set are still set.
C27_Witness ==
  /\ pc = "failed"
  /\ mPageAddresses = NUM_PAGES
  /\ \A d \in Descriptors : statusEntries[d]

\* The step that is initCard.
InitCardStep == pc = "initCard" /\ pc' # pc

\* C28: initCard fails iff the bus address of the table is not a multiple
\* of 32; it fails before any of the four registers of the table is written,
\* and the loop never starts; with an aligned address the four registers are
\* written.
C28_Alignment ==
  /\ [][ InitCardStep =>
           /\ bar = NoRegisters
           /\ IF mFifoAddress % 32 # 0
                THEN pc' = "failed" /\ bar' = NoRegisters
                ELSE /\ pc' = "startMonitor"
                     /\ bar'.fifoBusAddress = mFifoAddress
                     /\ bar'.fifoCardAddress
                     /\ bar'.descriptorTableSize
                     /\ bar'.doneControl
       ]_vars
  /\ []((pc = "failed" /\ mFifoAddress % 32 # 0) =>
          /\ bar = NoRegisters
          /\ NothingStarted)

\* C28 witness: initCard has failed on a misaligned table, after initFifo
\* has set up the table.
C28_Witness ==
  /\ pc = "failed"
  /\ mFifoAddress % 32 # 0
  /\ mPageAddresses > NUM_PAGES
  /\ ~(mOptions.fileOutputAscii /\ mOptions.fileOutputBin)
  /\ \A d \in Descriptors : descriptorEntries[d].destination = d

\* The table was set up and the card is not armed yet.
BeforeArmed ==
  \/ pc \in {"initCard", "startMonitor", "runDma", "arm"}
  \/ (pc \in {"fill", "pushPage", "pushEnqueue"} /\ ret = "arm")

\* initFifo has set up the table.
TableInitialized == pc \notin {"run", "initDma"} /\ mPageAddresses > NUM_PAGES

\* C29: before the card is configured and until the data emulator is
\* enabled, every status entry is not-arrived and every descriptor slot i
\* has page i as its destination; from the set-up of the table on, every
\* descriptor slot has a partitioned page as its destination.
C29_ValidDescriptors ==
  /\ [](BeforeArmed =>
          /\ ~dataEmulatorEnabled
          /\ \A d \in Descriptors :
               /\ ~statusEntries[d]
               /\ descriptorEntries[d].destination = d
               /\ d \in 0 .. (mPageAddresses - 1))
  /\ [](TableInitialized =>
          \A d \in Descriptors :
             descriptorEntries[d].destination \in 0 .. (mPageAddresses - 1))

\* C29 witness: the card is armed, the ring was gone around, and a slot has
\* another page than at the start.
C29_Witness ==
  /\ dataEmulatorEnabled
  /\ mPushCounter > NUM_PAGES
  /\ \E d \in Descriptors : descriptorEntries[d].destination # d

\* The step that is the call of setDescriptor.
SetDescriptorCall == sdResult = "none" /\ sdResult' # "none"

\* What setDescriptor does with a descriptor whose length field is this.
SetDescriptorWrites(length) ==
  IF sdPageIndex' \in 0 .. (mPageAddresses - 1)
    THEN /\ sdResult' = "done"
         /\ \A d \in Descriptors :
              descriptorEntries'[d] =
                IF d = sdDescriptorIndex'
                  THEN [length |-> length,
                        source |-> (d % NUM_OF_BUFFERS) * 8192,
                        destination |-> sdPageIndex']
                  ELSE descriptorEntries[d]
    ELSE /\ sdResult' = "exception"
         /\ descriptorEntries' = descriptorEntries

\* C30 as stated: the length that is written is the page size in bytes, 8192.
C30_LengthInBytes == [][ SetDescriptorCall => SetDescriptorWrites(8192) ]_vars

\* C30: setDescriptor(pageIndex, descriptorIndex) writes the slot
\* descriptorIndex and no other: the length is the page size in 32-bit
\* words, 2048, the source is (descriptorIndex mod NUM_OF_BUFFERS) times the
\* page size in bytes, the destination is the page pageIndex; with a
\* pageIndex that is no page it fails and writes nothing.
C30_LengthInWords == [][ SetDescriptorCall => SetDescriptorWrites(2048) ]_vars

\* C30 witness: a call has written a slot with a page of another index, and
\* another has failed.
C30_Witness ==
  /\ sdResult = "done"
  /\ sdPageIndex # sdDescriptorIndex
  /\ sdDescriptorIndex % NUM_OF_BUFFERS # 0
  /\ descriptorEntries[sdDescriptorIndex].destination = sdPageIndex
\* ------------------------------------------------------------------ C31
\* A call of resetPage.
ResetStep == rsCalls' = rsCalls + 1

\* The page a call of resetPage is made on was reset by the call before it.
SecondReset == rsCalls > 0 /\ rsIndex' = rsIndex

\* C31: after resetPage every word of the page is the fill value 0xCCCCCCCC
\* whatever the page held; the other pages and the status entries are left as
\* they are; a second reset of the page changes no page and no status entry.
C31_ResetIdempotent ==
  [][ResetStep =>
       /\ \A i \in 0 .. (PageWords - 1) :
            pageMemory'[rsIndex'][i] = <<52428, 52428>>
       /\ \A q \in MemoryPages \ {rsIndex'} : pageMemory'[q] = pageMemory[q]
       /\ statusEntries' = statusEntries /\ pages' = pages
       /\ (SecondReset => pageMemory' = pageMemory)]_vars

\* A page holding data has been reset twice.
C31_Witness ==
  /\ rsCalls = 2
  /\ \E p \in MemoryPages :
       /\ pageMemory[p] = DefaultPage
       /\ pageMemory[1 - p] \in PageContents

\* ------------------------------------------------------------------ C32
\* The header's bytes.
Byte(b) == header[b]

\* C32: getLinkId is byte 12 (bits 0-7 of the little-endian word 3),
\* getPacketCounter is byte 13 (bits 8-15 of word 3), getEventSize is bytes 10
\* and 11 (bits 16-31 of word 2): no other byte and no state has a part.
C32_HeaderFields ==
  hdrLinkId # NotComputed =>
    /\ hdrLinkId = Byte(12)
    /\ hdrPacketCounter = Byte(13)
    /\ hdrEventSize = Byte(10) + (256 * Byte(11))

\* Word 3 = 0x00001234 among other bytes that are all ones: link id 0x34,
\* packet counter 0x12.
C32_Witness ==
  /\ Byte(12) = 52 /\ Byte(13) = 18 /\ Byte(14) = 255 /\ Byte(0) = 255
  /\ Byte(10) = 255 /\ Byte(11) = 18
  /\ hdrLinkId = 52
  /\ hdrPacketCounter = 18
  /\ hdrEventSize = 4863

\* ------------------------------------------------------------------ C37
\* C37 as stated: the space reserved for a table of size s > 0 is the smallest
\* multiple of the page size that is >= s: a multiple that holds the table
\* while the multiple below it does not.
C37_RoundedUp ==
  fifoSpace # NotComputed =>
    /\ fifoSpace % DMA_PAGE_SIZE = 0
    /\ fifoSpace >= tableSize
    /\ (fifoSpace - DMA_PAGE_SIZE) < tableSize

\* C37: the space reserved for a table of size s > 0 is the smallest multiple
\* of the page size that is > s: a table whose size is a multiple of the page
\* size has one page more than its size reserved, any other table has its size
\* rounded up to whole pages.
C37_NextPage ==
  fifoSpace # NotComputed =>
    /\ fifoSpace % DMA_PAGE_SIZE = 0
    /\ fifoSpace > tableSize
    /\ (fifoSpace - DMA_PAGE_SIZE) <= tableSize
    /\ (tableSize % DMA_PAGE_SIZE = 0 => fifoSpace = tableSize + DMA_PAGE_SIZE)

\* A table of exactly one page has two pages reserved.
C37_ExtraPage ==
  /\ tableSize = DMA_PAGE_SIZE
  /\ fifoSpace = 2 * DMA_PAGE_SIZE

\* ------------------------------------------------------------------ C36
\* A call of lowPriorityTasks.
LowPriorityCall == pc = "lowPriority" /\ pc' # pc

\* The call runs the body: it resets the low-priority counter, which counts the
\* calls skipped since the body ran last.
BodyRuns == LowPriorityCall /\ mLowPriorityCounter' = 0

\* A skipped call changes nothing but the low-priority counter (and starts the
\* fill that follows the call).
SkippedCall ==
  /\ mLowPriorityCounter' = mLowPriorityCounter + 1
  /\ UNCHANGED <<mPushEnabled, mDmaLoopBreak, mHandlingSigint, mHandlingSigintStart, printed,
                 pauseVars, envVars, ringVars, queueVars, optVars, monVars, cntVars,
                 mLastFillSize, dataEmulatorEnabled, sideVars>>

\* C36 as stated: the body runs on one call out of every LOW_PRIORITY_INTERVAL
\* consecutive calls: on the call that follows LOW_PRIORITY_INTERVAL - 1
\* skipped ones.
C36_OneInInterval ==
  [][LowPriorityCall =>
       IF mLowPriorityCounter = LOW_PRIORITY_INTERVAL - 1 THEN BodyRuns ELSE SkippedCall]_vars

\* C36: the body runs on one call out of every LOW_PRIORITY_INTERVAL + 1
\* consecutive calls: LOW_PRIORITY_INTERVAL calls are skipped, changing nothing
\* but the low-priority counter, and the call after them runs the body.
C36_OneInIntervalPlusOne ==
  /\ [](mLowPriorityCounter \in 0 .. LOW_PRIORITY_INTERVAL)
  /\ [][LowPriorityCall =>
          IF mLowPriorityCounter = LOW_PRIORITY_INTERVAL THEN BodyRuns ELSE SkippedCall]_vars

\* The body has run, seen the interrupt and started the drain, after the
\* skipped calls.
C36_Witness ==
  /\ pc = "fill" /\ ret = "poll"
  /\ mLowPriorityCounter = 0
  /\ mHandlingSigint
  /\ mReadoutCounter > LOW_PRIORITY_INTERVAL

\* ------------------------------------------------------------------ C38
\* The loop is at the boundary of an iteration: at its first test.
IterationBoundary == pc = "loopTop"

\* C38: at every boundary of a loop iteration, and once the loop has stopped,
\* the queue holds the pages pushed and not read out, the readout counter is
\* between 0 and the push counter, the error count is at most the readout
\* counter, and with a finite page limit the push counter is at most the limit.
C38_Counters ==
  (IterationBoundary \/ LoopExited) =>
    /\ Len(mQueue) = mPushCounter - mReadoutCounter
    /\ 0 <= mReadoutCounter
    /\ mReadoutCounter <= mPushCounter
    /\ mErrorCount <= mReadoutCounter
    /\ (mOptions.maxPages > 0 => mPushCounter <= mOptions.maxPages)

\* The loop has stopped on an interrupt with pushed pages left unread in the
\* queue, after pages with errors were read out.
C38_Witness ==
  /\ LoopExited
  /\ mOptions.maxPages > 0
  /\ mErrorCount > 0
  /\ mReadoutCounter > mErrorCount
  /\ Len(mQueue) > 0
  /\ mPushCounter = mOptions.maxPages

\* ------------------------------------------------------------------ C39
\* lowPriorityTasks refreshes the status display: updateStatusDisplay is called
\* and the time of the refresh is taken.
DisplayRefreshed ==
  /\ LowPriorityCall
  /\ mLastDisplayUpdate' # mLastDisplayUpdate

\* C39: when the status display is refreshed from the low-priority tasks, with
\* the FIFO display reading the front handle of the queue, the queue is not
\* empty.
C39_FrontExists ==
  [][(DisplayRefreshed /\ mOptions.fifoDisplay) => mQueue # <<>>]_vars

\* The display has been refreshed a second time, during the drain of an
\* interrupted run, on a queue of one handle.
C39_Witness ==
  /\ pc = "fill" /\ ret = "poll"
  /\ mOptions.fifoDisplay
  /\ mLastDisplayUpdate > 0
  /\ mLastDisplayUpdate = now
  /\ mHandlingSigint
  /\ Len(mQueue) = 1

\* ------------------------------------------------------------------ C40
\* A call of lowPriorityTasks writes the emulator-pause register.
ControlWritten ==
  /\ LowPriorityCall
  /\ mRandomPausesFirm' # mRandomPausesFirm
  /\ controlWrites' # <<>>

\* The values a step can write: a pause, a resume, or a pause and its resume.
WriteRuns == {<<1>>, <<3>>, <<1, 3>>}

\* C40: with firmware pauses the writes to the emulator-pause register
\* alternate between 0x1 and 0x3, starting with 0x1; 0x1 is written only when
\* not paused and the trigger time has passed, 0x3 only when paused and the
\* pause length has elapsed since the trigger time; a new trigger time and
\* length are drawn only at a resume; a write leaves the queue and the
\* counters alone, and pushEnabled changes in the same call only by the
\* interrupt handling.
C40_PauseResume ==
  /\ [](mRandomPausesFirm.isPaused <=> dataEmulatorControl = 1)
  /\ [](dataEmulatorControl # 0 => mOptions.randomPauseFirm)
  /\ [][(mRandomPausesFirm' # mRandomPausesFirm \/ dataEmulatorControl' # dataEmulatorControl)
          => ControlWritten]_vars
  /\ [][ControlWritten =>
          /\ controlWrites' \in WriteRuns
          /\ (controlWrites'[1] = 1) <=> (dataEmulatorControl # 1)
          /\ dataEmulatorControl' = controlWrites'[Len(controlWrites')]
          /\ (controlWrites'[1] = 1) =>
                (~mRandomPausesFirm.isPaused /\ now' >= mRandomPausesFirm.next)
          /\ (controlWrites'[Len(controlWrites')] = 3) =>
                now' >= mRandomPausesFirm.next + mRandomPausesFirm.length
          /\ (controlWrites'[Len(controlWrites')] = 3) <=>
                (mRandomPausesFirm'.next # mRandomPausesFirm.next
                   \/ mRandomPausesFirm'.length # mRandomPausesFirm.length)
          /\ UNCHANGED <<queueVars, cntVars>>
          /\ (mPushEnabled' # mPushEnabled) => (sigInt /\ ~mHandlingSigint)]_vars

\* The emulator has been paused in one call and resumed in a later one, and is
\* paused again.
C40_Witness ==
  /\ mOptions.randomPauseFirm
  /\ controlWrites = <<1>>
  /\ mRandomPausesFirm.isPaused
  /\ mRandomPausesFirm.next > 0
  /\ mReadoutCounter > 0

\* ------------------------------------------------------------------ C33
\* The monitor thread takes a step that changes something.
MonitorActs ==
  /\ monitor = "running"
  /\ pc' = pc
  /\ \/ monitor' # monitor
     \/ mValidFlag' # mValidFlag
     \/ mMaxExceeded' # mMaxExceeded
     \/ hotSampled' # hotSampled

\* The hammer thread does a turn of its loop, or ends.
HammerActs ==
  /\ hammer = "running"
  /\ (hammer' # hammer \/ hammerTurns' # hammerTurns)

\* The state of the primary loop: the queue, the counters, the push and
\* loop-break flags, the page memory and the descriptor ring.
loopState ==
  <<mQueue, mPushCounter, mReadoutCounter, mDescriptorCounter, mPageIndexCounter,
    mPushEnabled, mDmaLoopBreak, mLowPriorityCounter, pages, descriptorEntries>>

\* C33 as stated: the validity and max-exceeded flags are written only by the
\* monitor thread, and no step of the monitor thread or of the register hammer
\* thread writes the state of the primary loop.
C33_SingleWriter ==
  [][/\ (mValidFlag' # mValidFlag \/ mMaxExceeded' # mMaxExceeded) => MonitorActs
     /\ (MonitorActs \/ HammerActs) => UNCHANGED loopState]_vars

\* The hammer thread has written a page of the buffer the primary loop is
\* waiting for.
C33_StrayWrite ==
  /\ hammerReg \notin {Unbound, DebugRegister}
  /\ pages[hammerReg[2]] = "hammered"
  /\ mQueue # <<>>
  /\ Head(mQueue).pageIndex = hammerReg[2]

\* ------------------------------------------------------------------ C34
\* An auxiliary thread is still running.
ThreadRunning == monitor = "running" \/ hammer = "running"

\* C34 as stated: when the file of the shared buffer is removed and when the
\* BAR mapping and the DMA buffer are released, on every way the run ends,
\* neither auxiliary thread is still running.
C34_JoinedBeforeTeardown ==
  (released \/ bufferFileRemoved) => ~ThreadRunning

\* After a fatal validator error the BAR mapping and the buffer are released
\* while both threads run.
C34_ReleasedWhileRunning ==
  /\ pc = "failed"
  /\ chkResult = "exception"
  /\ released
  /\ monitor = "running"
  /\ hammer = "running"

\* ------------------------------------------------------------------ C35
\* The run has left runDma.
RunEnded == pc \in {"join", "done", "failed"}

\* C35: the data emulator is enabled once, after the first fill of the queue
\* and before the first iteration of the loop; it is enabled at every top of
\* the loop; it is disabled when runDma is left, by its return or by a fatal
\* validator error, and is never enabled after that.
C35_EmulatorGuard ==
  /\ [][(dataEmulatorEnabled' /\ ~dataEmulatorEnabled) =>
          /\ pc = "arm" /\ pc' = "loopTop"
          /\ mPushCounter > 0
          /\ mReadoutCounter = 0 /\ examinedCount = 0 /\ mLowPriorityCounter = 0]_vars
  /\ [][(dataEmulatorEnabled /\ ~dataEmulatorEnabled') => (~RunEnded /\ RunEnded')]_vars
  /\ [][RunEnded => RunEnded']_vars
  /\ [](pc = "loopTop" => dataEmulatorEnabled)
  /\ [](RunEnded => ~dataEmulatorEnabled)

\* The run has ended by a fatal validator error on its first page, after the
\* emulator was enabled, and the emulator is disabled.
C35_Witness ==
  /\ pc = "failed"
  /\ chkResult = "exception"
  /\ examinedCount = 1
  /\ mPushCounter > 0
  /\ ~dataEmulatorEnabled

====
